---------------------------- MODULE Spec2Model ----------------------------
(***************************************************************************)
(* Transport and session protocol engine of Chassit's MCP client.          *)
(*                                                                         *)
(* The repository holds the client factory (packages/api/mcp/factory.mts)  *)
(* and the design of the client (specs/mcp-client-integration/index.md),   *)
(* whose TypeScript listings give the stdio and Streamable-HTTP            *)
(* transports.  The Session state machine, the per-request timeout, the    *)
(* cancellation at close and the Connection Manager's circuit breaker have *)
(* no listing: they are modelled from the engine's specification           *)
(* (sections 4.3, 4.5, 4.6 and 5).                                         *)
(*                                                                         *)
(*   Spec            one Session over one Transport, with its Message      *)
(*                   Correlator, a peer and a clock                        *)
(*   CorrelatorSpec  that Session without notify and close, with a peer    *)
(*                   that also sends unsolicited Responses and callers     *)
(*                   that cancel their wait                                *)
(*   BreakerSpec     the Connection Manager's circuit breaker of one       *)
(*                   server                                                *)
(*   StreamSpec      the readers of the two transports' inbound streams:   *)
(*                   handleSSEResponse and StdioTransport.processBuffer    *)
(*   CodecSpec       the zod schemas of the JSON-RPC messages              *)
(*                   (packages/shared/src/schemas/mcp.mts)                 *)
(*   FactorySpec     createTransport and detectTransportType               *)
(*   FactoryLiveSpec the same, with the timer that fires                   *)
(*   ShutdownSpec    the Session from open to Closed, with time passing    *)
(*   HttpSpec        the session id header of the Streamable-HTTP          *)
(*                   Transport                                             *)
(*   ServerSpec      the MCP server: its command line and construction     *)
(*   FlagsSpec       the feature flags of the MCP server                   *)
(*   MonitorSpec     the MCPMonitor: its events, its health verdict, its   *)
(*                   event log and reset()                                 *)
(*   SnapshotSpec    the MCPMonitor and a caller holding what getMetrics   *)
(*                   returned                                              *)
(***************************************************************************)
EXTENDS Integers, Sequences, FiniteSets, TLC

VARIABLES
    state,            \* Session.state (section 4.5)
    transport,        \* "unopened" | "open" | "closing" | "closed"
    nextId,           \* the id generateId() returns next
    pending,          \* the Correlator's table: set of PendingRequest
    outcome,          \* id -> what the caller's send resolved with
    settled,          \* id -> how many times the completion slot was settled
    resolvedBy,       \* id -> id of the Response that settled it (0: none)
    issued,           \* the ids issued so far, in order of issue
    sentLog,          \* what was written to the Transport, in order
    wireIn,           \* Responses the peer has produced, not yet delivered
    answered,         \* ids the peer has answered
    anomalies,        \* Responses discarded (logged) by the Correlator
    now,              \* the clock
    closeDeadline,    \* end of the grace period of a close in progress
    calls,            \* request/notify calls the Session accepted
    lastCall,         \* the last request/notify call and what it returned at once
    openError,        \* why open() failed ("none": it did not)
    transportCloses,  \* calls of Transport.close()
    closeCalls,       \* calls of Session.close()
    circuit,          \* ServerHealth.circuitState
    consecutiveFailures, \* ServerHealth.consecutiveFailures
    threshold,        \* N, the configured failure threshold
    openedAt,         \* when the circuit last opened
    clock,            \* the Connection Manager's clock
    inflight,         \* requests dispatched to the Transport: set of tokens
    probe,            \* token of the HalfOpen probe in flight (0: none)
    attempts,         \* requests asked of the Connection Manager
    dispatched,       \* Transport calls made for them
    history,          \* how the dispatched requests completed, in order
    lastVerdict,      \* what the last request returned at once
    channel,          \* the Transport an inbound byte stream belongs to
    input,            \* the bytes the peer writes to the stream
    fed,              \* how many of them have been read
    buffer,           \* the reader's `buffer`: bytes of the unfinished line
    reading,          \* "reading" | "eof" | "failed": the read loop
    slots,            \* request id -> how its promise was settled, and by what
    lastEventId,      \* StreamableHTTPTransport.lastEventId
    parsed,           \* the payloads JSON.parse decoded, in order
    handlerLog,       \* start and end of every 'message' listener round
    invalid,          \* lines logged as 'Invalid JSON'
    midLine,          \* some read so far ended inside a line
    object,           \* the inbound object handed to the codec
    accepted,         \* the schemas that parsed it
    validated,        \* the schemas have been run
    strays,           \* unsolicited Responses the peer has sent
    config,           \* the TransportConfig createTransport is called with
    peer,             \* what is at the other end of config.url / config.command
    phase,            \* createTransport: "idle" | "racing" | "returned" | "rejected"
    client,           \* the Client: "none" | "created" | "connected"
    transportType,    \* the transport constructed for the client
    connect,          \* client.connect(transport): "none" | "pending" | ...
    timer,            \* the connection timer: "unset" | "armed" | "fired"
    thrown,           \* what createTransport rejected with
    detecting,        \* detectTransportType: "idle" | "post" | "get"
    detections,       \* what the calls of detectTransportType returned
    probes,           \* the probes they sent, in order
    sessionId,        \* StreamableHTTPTransport.sessionId
    httpLog,          \* the HTTP requests that transport has sent
    fetches,          \* the POSTs whose response it awaits
    assigned,         \* the session id of the initialize response received
    caller,           \* its caller: "new" | "initializing" | "operating" | "closed"
    env,              \* process.env, the variables the MCP server reads
    defaultFlags,     \* the nested objects of DEFAULT_MCP_FLAGS
    loaded,           \* what the last call of loadMCPFlags returned
    server,           \* the ChassitMCPServer of this process
    cli,              \* main(): "idle" | "connecting" | "running" | "exit 1"
    argv,             \* the command line main() was run with
    checked,          \* the last call of a feature flag checker
    flagCalls,        \* calls of loadMCPFlags and of the checkers
    envChanges,       \* assignments to process.env
    monitor,          \* the MCPMonitor: config.monitoring.enabled, metrics,
                      \* events, responseTimeBuffer
    snapshot,         \* the object the last getMetrics() returned
    observed,         \* what the last getHealthStatus()/getEvents() returned
    tally             \* calls made of the monitor (recordEvent, reset, writes
                      \* to a snapshot), requests received and not completed,
                      \* and the events handed to it since the last reset()

sessionVars ==
    << state, transport, nextId, pending, outcome, settled, resolvedBy, issued,
       sentLog, wireIn, answered, anomalies, now, closeDeadline, calls,
       lastCall, openError, transportCloses, closeCalls >>

breakerVars ==
    << circuit, consecutiveFailures, threshold, openedAt, clock, inflight,
       probe, attempts, dispatched, history, lastVerdict >>

streamVars ==
    << channel, input, fed, buffer, reading, slots, lastEventId, parsed,
       handlerLog, invalid, midLine >>

codecVars == << object, accepted, validated >>

factoryVars ==
    << config, peer, phase, client, transportType, connect, timer, thrown,
       detecting, detections, probes >>

httpVars == << sessionId, httpLog, fetches, assigned, caller >>

serverVars ==
    << env, defaultFlags, loaded, server, cli, argv, checked, flagCalls,
       envChanges >>

monitorVars == << monitor, snapshot, observed, tally >>

vars ==
    << sessionVars, breakerVars, streamVars, codecVars, strays, factoryVars,
       httpVars, serverVars, monitorVars >>

\* what the Session, the breaker, the stream reader and the codec each
\* leave alone
notSession ==
    << breakerVars, streamVars, codecVars, strays, factoryVars, httpVars,
       serverVars, monitorVars >>
notBreaker ==
    << sessionVars, streamVars, codecVars, strays, factoryVars, httpVars,
       serverVars, monitorVars >>
notStream ==
    << sessionVars, breakerVars, codecVars, strays, factoryVars, httpVars,
       serverVars, monitorVars >>
notCodec ==
    << sessionVars, breakerVars, streamVars, strays, factoryVars, httpVars,
       serverVars, monitorVars >>
notFactory ==
    << sessionVars, breakerVars, streamVars, codecVars, strays, httpVars,
       serverVars, monitorVars >>
notHttp ==
    << sessionVars, breakerVars, streamVars, codecVars, strays, factoryVars,
       serverVars, monitorVars >>
notServer ==
    << sessionVars, breakerVars, streamVars, codecVars, strays, factoryVars,
       httpVars, monitorVars >>
notMonitor ==
    << sessionVars, breakerVars, streamVars, codecVars, strays, factoryVars,
       httpVars, serverVars >>

----------------------------------------------------------------------------
(* Bounds of the model *)

MaxCalls == 2      \* request/notify calls one Session accepts
MaxTime == 2       \* the clock stops here
MaxCloses == 2     \* calls of Session.close()

\* the timeouts callers ask for, in clock units
Timeouts == {1, 2}

(* Program constants, in clock units *)

DefaultTimeout == 2   \* timeout of the handshake request
GracePeriod == 1      \* ShuttingDown -> Closed at the latest after this

MaxId == MaxCalls + 1
Ids == 1..MaxId

EngineVersion == "2025-06-18"
CompatWindow == {"2025-03-26"}
Versions == {EngineVersion, "2025-03-26", "2024-11-05"}
ErrorCode == "-32000"

SessionStates ==
    << "Uninitialized", "Initializing", "Operating", "ShuttingDown", "Closed" >>

\* position of a state in the lifecycle order
RECURSIVE IndexOf(_, _, _)
IndexOf(seq, x, i) ==
    IF i > Len(seq) THEN 0
    ELSE IF seq[i] = x THEN i ELSE IndexOf(seq, x, i + 1)

Rank(s) == IndexOf(SessionStates, s, 1)

NoOutcome == [kind |-> "none", val |-> "none"]

----------------------------------------------------------------------------
(* JSON-RPC messages *)

RequestMessage(id, method) ==
    [type |-> "request", id |-> id, method |-> method]

NotificationMessage(method) ==
    [type |-> "notification", id |-> 0, method |-> method]

ResponseMessage(id, kind, val) ==
    [id |-> id, kind |-> kind, val |-> val]

\* generateId() that hands out the same id again
GenerateIdStuck(n) == IF n >= 2 THEN 2 ELSE n + 1

\* generateId(): monotonically increasing integer scoped to the Session
GenerateId(n) == n + 1

\* a handler that takes whatever Response comes next, in send order
MatchesInSendOrder(msg, entry) == \A e \in pending : entry.id <= e.id

\* the handler of a request: `if (msg.id === id)`
Matches(msg, entry) == msg.id = entry.id

\* `if (msg.error) reject(...) else resolve(msg.result)`
Settle(msg) ==
    IF msg.kind = "error"
    THEN [kind |-> "RpcError", val |-> msg.val]
    ELSE [kind |-> "Result", val |-> msg.val]

\* a version check that accepts every version it knows of
CompatibleAnyKnown(v) == v \in {EngineVersion, "2025-03-26", "2024-11-05"}

\* exact match, or within the engine's compatibility window
Compatible(v) == v = EngineVersion \/ v \in CompatWindow

PendingEntry(id, method, timeout) ==
    [id |-> id, method |-> method, issuedAt |-> now, deadline |-> now + timeout]

PendingIds == {e.id : e \in pending}

----------------------------------------------------------------------------
(* The Message Correlator's completion slots *)

Cancelled == [kind |-> "Cancelled", val |-> "none"]
TimedOut == [kind |-> "Timeout", val |-> "none"]

\* every entry of P fails with Cancelled
CancelAll(P) == [i \in {e.id : e \in P} |-> [o |-> Cancelled, by |-> 0]]

\* the entry `hit` is settled by the Response r
SettleBy(hit, r) == [i \in {e.id : e \in hit} |-> [o |-> Settle(r), by |-> r.id]]

\* m: id -> [o, by], the completion slots settled in this step
ApplySettlements(m) ==
    /\ outcome' = [i \in Ids |-> IF i \in DOMAIN m THEN m[i].o ELSE outcome[i]]
    /\ settled' = [i \in Ids |-> IF i \in DOMAIN m THEN settled[i] + 1 ELSE settled[i]]
    /\ resolvedBy' = [i \in Ids |-> IF i \in DOMAIN m THEN m[i].by ELSE resolvedBy[i]]

\* a handler that stays registered once it has settled its request
AfterSettleKept(P, hit) == P

\* the table once the Response that settled `hit` has been handled
\* (`this.off('message', handler)`)
AfterSettle(P, hit) == P \ hit

\* a timeout that leaves its entry in the table
AfterTimeoutKept(P, e) == P

\* the table once the entry e has timed out
AfterTimeout(P, e) == P \ {e}

\* a close that cancels nothing
CancelledAtCloseNone(P) == {}

\* the entries cancelled when the Session closes
CancelledAtClose(P) == P

----------------------------------------------------------------------------
(* Connection Manager: the circuit breaker of one server (section 4.6) *)

MaxAttempts == 6   \* requests asked of the Connection Manager
MaxClock == 2      \* the Connection Manager's clock stops here

DefaultThreshold == 5   \* N, unless configured
Cooldown == 1           \* Open -> HalfOpen after this, in clock units

\* the thresholds servers are configured with
Thresholds == {2, DefaultThreshold}

Completions == {"Success", "RpcError", "TransportError", "Timeout"}

\* a breaker that counts every error, the peer's own included
IsFailureAnyError(kind) == kind # "Success"

\* a failure for breaker purposes: a transport-level or timeout error, never
\* an application-level RpcError
IsFailure(kind) == kind \in {"TransportError", "Timeout"}

\* a breaker that trips one failure late
TripsLate(n, N) == n > N

\* the circuit trips at N consecutive failures
Trips(n, N) == n >= N

\* a breaker that half-opens as soon as it has opened
CooledDownAtOnce(t, since) == t >= since

\* the cooldown window has passed
CooledDown(t, since) == t >= since + Cooldown

\* the failures at the end of the completion history h
RECURSIVE TrailingFailures(_)
TrailingFailures(h) ==
    IF h = << >> \/ h[Len(h)] \notin {"TransportError", "Timeout"}
    THEN 0
    ELSE 1 + TrailingFailures(SubSeq(h, 1, Len(h) - 1))

\* the breaker of a server no request has been made to
BreakerIdle ==
    /\ circuit = "Closed"
    /\ consecutiveFailures = 0
    /\ threshold = DefaultThreshold
    /\ openedAt = 0
    /\ clock = 0
    /\ inflight = {}
    /\ probe = 0
    /\ attempts = 0
    /\ dispatched = 0
    /\ history = << >>
    /\ lastVerdict = "none"

\* the breaker of a server as configured
BreakerConfigured ==
    /\ circuit = "Closed"
    /\ consecutiveFailures = 0
    /\ threshold \in Thresholds
    /\ openedAt = 0
    /\ clock = 0
    /\ inflight = {}
    /\ probe = 0
    /\ attempts = 0
    /\ dispatched = 0
    /\ history = << >>
    /\ lastVerdict = "none"

\* the request is handed to the Session and its Transport
Dispatch ==
    /\ dispatched' = dispatched + 1
    /\ inflight' = inflight \cup {dispatched + 1}
    /\ lastVerdict' = "dispatched"

\* the request fails fast: no Transport call is attempted
FailFast ==
    /\ lastVerdict' = "CircuitOpen"
    /\ UNCHANGED << dispatched, inflight >>

\* a new request to the server
BreakerRequest ==
    /\ attempts < MaxAttempts
    /\ attempts' = attempts + 1
    /\ IF circuit = "Closed"
       THEN Dispatch /\ UNCHANGED probe
       ELSE IF circuit = "HalfOpen" /\ probe = 0
       THEN Dispatch /\ probe' = dispatched + 1
       ELSE FailFast /\ UNCHANGED probe
    /\ UNCHANGED << circuit, consecutiveFailures, threshold, openedAt, clock,
                    history, notBreaker >>

\* a breaker that fails every request in flight when the circuit is not
\* Closed or a failure completes
StillInFlightUntilOpen(F, token, c, kind) ==
    IF c # "Closed" \/ kind \in {"TransportError", "Timeout"} THEN {}
    ELSE F \ {token}

\* the requests still in flight once `token` has completed: the breaker
\* ends none of them, whatever the circuit does
StillInFlight(F, token, c, kind) == F \ {token}

\* a dispatched request completes: with its Response (Success, RpcError),
\* with a TransportError or with its own Timeout
BreakerComplete(token, kind) ==
    /\ token \in inflight
    /\ inflight' = StillInFlight(inflight, token, circuit, kind)
    /\ history' = Append(history, kind)
    /\ IF circuit = "HalfOpen" /\ token = probe
       THEN \* the probe decides
            /\ probe' = 0
            /\ IF IsFailure(kind)
               THEN /\ circuit' = "Open"
                    /\ openedAt' = clock
                    /\ consecutiveFailures' = consecutiveFailures + 1
               ELSE /\ circuit' = "Closed"
                    /\ consecutiveFailures' = 0
                    /\ UNCHANGED openedAt
       ELSE IF circuit = "Closed"
       THEN /\ UNCHANGED probe
            /\ IF IsFailure(kind)
               THEN /\ consecutiveFailures' = consecutiveFailures + 1
                    /\ IF Trips(consecutiveFailures + 1, threshold)
                       THEN circuit' = "Open" /\ openedAt' = clock
                       ELSE UNCHANGED << circuit, openedAt >>
               ELSE /\ consecutiveFailures' = 0
                    /\ UNCHANGED << circuit, openedAt >>
       ELSE \* dispatched before the circuit opened: the circuit stays as it is
            /\ consecutiveFailures' =
                   IF IsFailure(kind) THEN consecutiveFailures + 1
                   ELSE consecutiveFailures
            /\ UNCHANGED << circuit, openedAt, probe >>
    /\ UNCHANGED << threshold, clock, attempts, dispatched, lastVerdict,
                    notBreaker >>

\* Open -> HalfOpen once the cooldown window has passed
CooldownElapsed ==
    /\ circuit = "Open"
    /\ CooledDown(clock, openedAt)
    /\ circuit' = "HalfOpen"
    /\ UNCHANGED << consecutiveFailures, threshold, openedAt, clock, inflight,
                    probe, attempts, dispatched, history, lastVerdict,
                    notBreaker >>

BreakerTick ==
    /\ clock < MaxClock
    /\ clock' = clock + 1
    /\ UNCHANGED << circuit, consecutiveFailures, threshold, openedAt, inflight,
                    probe, attempts, dispatched, history, lastVerdict,
                    notBreaker >>

BreakerNext ==
    \/ BreakerRequest
    \/ \E token \in inflight : \E kind \in Completions : BreakerComplete(token, kind)
    \/ CooldownElapsed
    \/ BreakerTick

----------------------------------------------------------------------------
(* Inbound byte streams: the SSE response of a POST and the stdout of a   *)
(* stdio server, as the two transports read them                           *)

MaxFrames == 2     \* SSE frames, or stdio lines, the peer writes to a stream

LF == "\n"
CR == "\r"
DataField == "data: "
IdField == "id: "
EventField == "event: "

\* the request whose POST the SSE stream answers, and the ids outstanding
StreamRequestId == 7
Outstanding == {7, 8}

\* JSON.parse, on the texts the peer writes; "{bad" is not JSON
Wire ==
    [t \in {"res7", "res8", "err7", "note1", "note2"} |->
        CASE t = "res7" -> ResponseMessage(7, "result", "a")
          [] t = "res8" -> ResponseMessage(8, "result", "b")
          [] t = "err7" -> ResponseMessage(7, "error", ErrorCode)
          [] t = "note1" -> NotificationMessage("note1")
          [] t = "note2" -> NotificationMessage("note2")]

\* String.prototype.trim()
RECURSIVE Trim(_)
Trim(line) ==
    IF line # << >> /\ Head(line) = CR THEN Trim(Tail(line))
    ELSE IF line # << >> /\ line[Len(line)] = CR
    THEN Trim(SubSeq(line, 1, Len(line) - 1))
    ELSE line

\* JSON.parse(text) returns rather than throws
Decodable(text) == Len(Trim(text)) = 1 /\ Trim(text)[1] \in DOMAIN Wire

JsonParse(text) == Wire[Trim(text)[1]]

\* index of the first LF of buf from position i on (0: none)
RECURSIVE FirstLF(_, _)
FirstLF(buf, i) ==
    IF i > Len(buf) THEN 0
    ELSE IF buf[i] = LF THEN i ELSE FirstLF(buf, i + 1)

\* a reader that hands the newest line to the handlers first
RECURSIVE CompleteLinesNewestFirst(_)
CompleteLinesNewestFirst(buf) ==
    LET k == FirstLF(buf, 1) IN
    IF k = 0 THEN << >>
    ELSE CompleteLinesNewestFirst(SubSeq(buf, k + 1, Len(buf)))
             \o << SubSeq(buf, 1, k - 1) >>

\* `buffer.split('\n')` less its last piece: the lines that are complete
RECURSIVE CompleteLines(_)
CompleteLines(buf) ==
    LET k == FirstLF(buf, 1) IN
    IF k = 0 THEN << >>
    ELSE << SubSeq(buf, 1, k - 1) >>
             \o CompleteLines(SubSeq(buf, k + 1, Len(buf)))

\* a reader that forgets the unfinished line between two reads
LeftoverDropped(buf) == << >>

\* `lines.pop() || ''`: the unfinished line, kept for the next read
RECURSIVE Leftover(_)
Leftover(buf) ==
    LET k == FirstLF(buf, 1) IN
    IF k = 0 THEN buf ELSE Leftover(SubSeq(buf, k + 1, Len(buf)))

StartsWith(line, field) == line # << >> /\ Head(line) = field

\* `message.id && message.result !== undefined`
IsAwaitedResponse(msg) == msg.id # 0 /\ msg.kind = "result"

\* the promise of request i, once settled, stays as it was settled
SettleSlot(s, i, o, by) ==
    IF s[i].o = NoOutcome THEN [s EXCEPT ![i] = [o |-> o, by |-> by]] ELSE s

\* processLine of handleSSEResponse; a throw of JSON.parse leaves the read
\* loop through its catch, which rejects the promise
ProcessLine(st, line) ==
    IF StartsWith(line, DataField)
    THEN IF ~Decodable(Tail(line))
         THEN [st EXCEPT
                 !.reading = "failed",
                 !.slots = SettleSlot(@, StreamRequestId,
                               [kind |-> "SyntaxError", val |-> "none"], 0)]
         ELSE LET message == JsonParse(Tail(line)) IN
              [st EXCEPT
                 !.parsed = Append(@, [id |-> st.lastEventId,
                                       data |-> message]),
                 !.slots = IF IsAwaitedResponse(message)
                           THEN SettleSlot(@, StreamRequestId,
                                    [kind |-> "Result", val |-> message.val],
                                    message.id)
                           ELSE @]
    ELSE IF StartsWith(line, IdField)
    THEN [st EXCEPT !.lastEventId = Tail(line)]
    ELSE st

\* `this.emit('message', message)`: the listeners run one after the other
\* inside the call; the handler of a request that matches settles it and
\* unregisters itself
Emit(st, message) ==
    LET hit == {i \in Outstanding :
                   st.slots[i].o = NoOutcome /\ Matches(message, [id |-> i])}
    IN [st EXCEPT
          !.handlerLog = @ \o << [ev |-> "start", msg |-> message],
                                 [ev |-> "end", msg |-> message] >>,
          !.slots = [i \in Outstanding |->
                        IF i \in hit
                        THEN [o |-> Settle(message), by |-> message.id]
                        ELSE @[i]]]

\* one line of processBuffer: JSON.parse and emit inside try/catch
StdioLine(st, line) ==
    IF Decodable(line)
    THEN Emit([st EXCEPT !.parsed = Append(@, [id |-> << >>,
                                               data |-> JsonParse(line)])],
              JsonParse(line))
    ELSE [st EXCEPT !.invalid = @ + 1]

\* `if (line.trim()) ...`: blank lines are skipped
HandleLine(c, st, line) ==
    IF Trim(line) = << >> THEN st
    ELSE IF c = "sse" THEN ProcessLine(st, Trim(line))
    ELSE StdioLine(st, line)

\* `for (const line of lines)`: in order, until a throw leaves the loop
RECURSIVE ProcessLines(_, _, _)
ProcessLines(c, st, lines) ==
    IF lines = << >> \/ st.reading # "reading" THEN st
    ELSE ProcessLines(c, HandleLine(c, st, Head(lines)), Tail(lines))

\* one read of the stream: `buffer += chunk`, split, keep the unfinished
\* line, handle the complete ones
Feed(c, st, chunk) ==
    LET buf == st.buffer \o chunk IN
    ProcessLines(c,
                 [st EXCEPT !.buffer = Leftover(buf),
                            !.midLine = @ \/ Leftover(buf) # << >>],
                 CompleteLines(buf))

\* the reader before its first read
FreshReader ==
    [buffer |-> << >>, reading |-> "reading",
     slots |-> [i \in Outstanding |-> [o |-> NoOutcome, by |-> 0]],
     lastEventId |-> << >>, parsed |-> << >>, handlerLog |-> << >>,
     invalid |-> 0, midLine |-> FALSE]

ReaderState ==
    [buffer |-> buffer, reading |-> reading, slots |-> slots,
     lastEventId |-> lastEventId, parsed |-> parsed,
     handlerLog |-> handlerLog, invalid |-> invalid, midLine |-> midLine]

ReaderIs(st) ==
    /\ buffer = st.buffer
    /\ reading = st.reading
    /\ slots = st.slots
    /\ lastEventId = st.lastEventId
    /\ parsed = st.parsed
    /\ handlerLog = st.handlerLog
    /\ invalid = st.invalid
    /\ midLine = st.midLine

ReaderBecomes(st) ==
    /\ buffer' = st.buffer
    /\ reading' = st.reading
    /\ slots' = st.slots
    /\ lastEventId' = st.lastEventId
    /\ parsed' = st.parsed
    /\ handlerLog' = st.handlerLog
    /\ invalid' = st.invalid
    /\ midLine' = st.midLine

\* the frames a Streamable-HTTP peer writes, each ended by a blank line
SseFrames ==
    { << IdField, "e1", LF, DataField, "res7", LF, LF >>,
      << DataField, "res8", CR, LF, CR, LF >>,
      << EventField, "ping", LF, DataField, "note1", LF, LF >>,
      << DataField, "{bad", LF, LF >> }

\* the lines a stdio server writes
StdioFrames ==
    { << t, LF >> : t \in {"res7", "res8", "err7", "note1", "note2", "{bad"} }

Frames(c) == IF c = "sse" THEN SseFrames ELSE StdioFrames

RECURSIVE Flatten(_)
Flatten(fs) == IF fs = << >> THEN << >> ELSE Head(fs) \o Flatten(Tail(fs))

\* the streams made of whole frames
WholeStreams(c) ==
    {Flatten(fs) : fs \in UNION {[1..k -> Frames(c)] : k \in 0..MaxFrames}}

\* every stream, those cut short by the end of the connection included
Streams(c) ==
    UNION {{SubSeq(w, 1, n) : n \in 0..Len(w)} : w \in WholeStreams(c)}

\* no stream is being read
StreamIdle ==
    /\ channel = "none"
    /\ input = << >>
    /\ fed = 0
    /\ ReaderIs(FreshReader)

\* a stream is about to be read
StreamOpened ==
    /\ channel \in {"sse", "stdio"}
    /\ input \in Streams(channel)
    /\ fed = 0
    /\ ReaderIs(FreshReader)

\* `reader.read()` returns a chunk (stdout emits 'data'): k more bytes
ReadChunk(k) ==
    /\ reading = "reading"
    /\ fed + k <= Len(input)
    /\ fed' = fed + k
    /\ ReaderBecomes(Feed(channel, ReaderState, SubSeq(input, fed + 1, fed + k)))
    /\ UNCHANGED << channel, input, notStream >>

\* `if (done) break`: the stream ends; what is left in `buffer` is dropped
EndOfStream ==
    /\ reading = "reading"
    /\ fed = Len(input)
    /\ reading' = "eof"
    /\ UNCHANGED << channel, input, fed, buffer, slots, lastEventId, parsed,
                    handlerLog, invalid, midLine, notStream >>

StreamNext ==
    \/ \E k \in 1..Len(input) : ReadChunk(k)
    \/ EndOfStream

----------------------------------------------------------------------------
(* JSON-RPC codec: the zod schemas an inbound object is validated against *)

\* what a field of an inbound object can hold
JsonRpcValues == {"absent", "2.0", "1.0"}
IdValues == {"absent", "number", "string", "null"}
MethodValues == {"absent", "string", "number"}
ResultValues == {"absent", "present"}
ErrorValues == {"absent", "object", "string"}

InboundObjects ==
    [jsonrpc : JsonRpcValues, id : IdValues, method : MethodValues,
     result : ResultValues, error : ErrorValues]

\* `jsonrpc: z.literal('2.0')`
IsVersion2(o) == o.jsonrpc = "2.0"

\* `id: z.union([z.string(), z.number()])`
HasValidId(o) == o.id \in {"string", "number"}

\* `method: z.string()`
HasValidMethod(o) == o.method = "string"

\* `error: z.object({code, message, data}).optional()`; `result` is
\* `z.any().optional()` and accepts whatever is or is not there
ErrorAcceptable(o) == o.error \in {"absent", "object"}

\* z.object strips the keys a schema does not name, it does not reject them
JsonRpcRequestSchema(o) == IsVersion2(o) /\ HasValidId(o) /\ HasValidMethod(o)

JsonRpcResponseSchema(o) == IsVersion2(o) /\ HasValidId(o) /\ ErrorAcceptable(o)

JsonRpcNotificationSchema(o) == IsVersion2(o) /\ HasValidMethod(o)

\* the schemas that parse o
AcceptedBy(o) ==
    {s \in {"Request", "Response", "Notification"} :
        \/ s = "Request" /\ JsonRpcRequestSchema(o)
        \/ s = "Response" /\ JsonRpcResponseSchema(o)
        \/ s = "Notification" /\ JsonRpcNotificationSchema(o)}

\* nothing has been received
CodecIdle ==
    /\ object = [jsonrpc |-> "absent", id |-> "absent", method |-> "absent",
                 result |-> "absent", error |-> "absent"]
    /\ accepted = {}
    /\ validated = FALSE

\* an object has come off the wire
CodecReceived ==
    /\ object \in InboundObjects
    /\ accepted = {}
    /\ validated = FALSE

\* the object is run through the three schemas
Validate ==
    /\ ~validated
    /\ validated' = TRUE
    /\ accepted' = AcceptedBy(object)
    /\ UNCHANGED << object, notCodec >>

CodecNext == Validate

----------------------------------------------------------------------------
(* The client factory (packages/api/mcp/factory.mts) *)

MaxDetections == 1   \* calls of detectTransportType

\* TransportConfig, as far as createTransport reads it
Configs == [url : BOOLEAN, command : BOOLEAN, sessionId : BOOLEAN]

\* how the server at config.url answers the POST probe and the GET probe,
\* and whether config.command starts a server
PostAnswers == {"throws", "404", "ok", "ok 2025-03-26", "ok 2025-06-18"}
GetAnswers == {"throws", "404", "ok application/json", "ok text/event-stream"}
Peers == [post : PostAnswers, get : GetAnswers, process : {"runs", "missing"}]

\* a probe that is content with any OK answer to the POST
IsStreamableHttpAnyVersion(answer) ==
    answer \in {"ok", "ok 2025-03-26", "ok 2025-06-18"}

\* `probeResponse.ok && probeResponse.headers.get('Mcp-Protocol-Version')
\*  === '2025-06-18'`
IsStreamableHttp(answer) == answer = "ok 2025-06-18"

\* `sseResponse.ok && sseResponse.headers.get('Content-Type')
\*  ?.includes('text/event-stream')`
IsLegacySse(answer) == answer = "ok text/event-stream"

\* a factory that prefers the command
TransportForCommandFirst(c) == IF c.command THEN "stdio" ELSE "streamable-http"

\* the transport createTransport constructs for a config that has a url or
\* a command
TransportFor(c) == IF c.url THEN "streamable-http" ELSE "stdio"

\* client.connect(transport) can complete: the server answers POSTs, or the
\* command runs
CanConnect(type, p) ==
    IF type = "stdio" THEN p.process = "runs"
    ELSE p.post \in {"ok", "ok 2025-03-26", "ok 2025-06-18"}

\* nothing has been called
FactoryIdle ==
    /\ config = [url |-> FALSE, command |-> FALSE, sessionId |-> FALSE]
    /\ peer = [post |-> "throws", get |-> "throws", process |-> "missing"]
    /\ phase = "idle"
    /\ client = "none"
    /\ transportType = "none"
    /\ connect = "none"
    /\ timer = "unset"
    /\ thrown = "none"
    /\ detecting = "idle"
    /\ detections = << >>
    /\ probes = << >>

\* a caller holds a config, a server of some kind is or is not there
FactoryReady ==
    /\ config \in Configs
    /\ peer \in Peers
    /\ phase = "idle"
    /\ client = "none"
    /\ transportType = "none"
    /\ connect = "none"
    /\ timer = "unset"
    /\ thrown = "none"
    /\ detecting = "idle"
    /\ detections = << >>
    /\ probes = << >>

\* createTransport(config), up to its `await Promise.race(...)`
CreateTransport ==
    /\ phase = "idle"
    /\ IF ~config.url /\ ~config.command
       THEN /\ phase' = "rejected"
            /\ thrown' = "config"
            /\ UNCHANGED << client, transportType, connect, timer >>
       ELSE /\ client' = "created"
            /\ transportType' = TransportFor(config)
            /\ timer' = "armed"
            /\ connect' = "pending"
            /\ phase' = "racing"
            /\ UNCHANGED thrown
    /\ UNCHANGED << config, peer, detecting, detections, probes, notFactory >>

\* client.connect(transport) resolves; if the race is still on,
\* createTransport returns the client
ConnectResolves ==
    /\ connect = "pending"
    /\ CanConnect(transportType, peer)
    /\ connect' = "resolved"
    /\ client' = "connected"
    /\ phase' = IF phase = "racing" THEN "returned" ELSE phase
    /\ UNCHANGED << config, peer, transportType, timer, thrown, detecting,
                    detections, probes, notFactory >>

\* client.connect(transport) rejects; if the race is still on,
\* createTransport rethrows
ConnectRejects ==
    /\ connect = "pending"
    /\ connect' = "rejected"
    /\ phase' = IF phase = "racing" THEN "rejected" ELSE phase
    /\ thrown' = IF phase = "racing" THEN "connect" ELSE thrown
    /\ UNCHANGED << config, peer, client, transportType, timer, detecting,
                    detections, probes, notFactory >>

\* a race that the timer cannot end
AfterTimerStillRacing(ph) == ph

\* `Promise.race([client.connect(transport), timeoutPromise])`: the timer's
\* rejection ends the race if the race is still on
AfterTimer(ph) == IF ph = "racing" THEN "rejected" ELSE ph

\* the 10 s timer fires; if the race is still on, createTransport rejects
\* with the connection-timeout error
TimerFires ==
    /\ timer = "armed"
    /\ timer' = "fired"
    /\ phase' = AfterTimer(phase)
    /\ thrown' = IF phase = "racing" THEN "timeout" ELSE thrown
    /\ UNCHANGED << config, peer, client, transportType, connect, detecting,
                    detections, probes, notFactory >>

\* a caller calls detectTransportType(config.url): the POST probe is sent
DetectTransportType ==
    /\ config.url
    /\ detecting = "idle"
    /\ Len(detections) < MaxDetections
    /\ detecting' = "post"
    /\ probes' = Append(probes, "POST")
    /\ UNCHANGED << config, peer, phase, client, transportType, connect,
                    timer, thrown, detections, notFactory >>

\* the POST probe is over
PostProbeDone ==
    /\ detecting = "post"
    /\ IF IsStreamableHttp(peer.post)
       THEN /\ detections' = Append(detections, "streamable-http")
            /\ detecting' = "idle"
            /\ UNCHANGED probes
       ELSE /\ detecting' = "get"
            /\ probes' = Append(probes, "GET")
            /\ UNCHANGED detections
    /\ UNCHANGED << config, peer, phase, client, transportType, connect,
                    timer, thrown, notFactory >>

\* the GET probe is over
GetProbeDone ==
    /\ detecting = "get"
    /\ detections' = Append(detections,
                        IF IsLegacySse(peer.get) THEN "legacy-sse"
                        ELSE "unknown")
    /\ detecting' = "idle"
    /\ UNCHANGED << config, peer, phase, client, transportType, connect,
                    timer, thrown, probes, notFactory >>

FactoryNext ==
    \/ CreateTransport
    \/ ConnectResolves
    \/ ConnectRejects
    \/ TimerFires
    \/ DetectTransportType
    \/ PostProbeDone
    \/ GetProbeDone

----------------------------------------------------------------------------
(* The Streamable-HTTP Transport's session id (section 4.4; the listing   *)
(* of StreamableHTTPTransport in specs/mcp-client-integration/index.md)   *)

MaxHttpRequests == 3   \* HTTP requests the transport sends

\* the session ids a peer hands out; "none": the header is absent
SessionIds == {"s1", "s2"}
SessionHeaders == SessionIds \cup {"none"}

\* a transport that takes the session id of whatever response it gets
StoredAfterAnyResponse(method, stored, header) == header

\* `if (method === 'initialize') this.sessionId =
\*    response.headers.get('Mcp-Session-Id') || undefined`
StoredAfter(method, stored, header) ==
    IF method = "initialize" THEN header ELSE stored

\* `...(this.sessionId && { 'Mcp-Session-Id': this.sessionId })`; `known` is
\* the session id the peer has assigned so far
HttpRequest(verb, method) ==
    [verb |-> verb, method |-> method, sid |-> sessionId, known |-> assigned]

\* the transport has been constructed
HttpIdle ==
    /\ sessionId = "none"
    /\ httpLog = << >>
    /\ fetches = {}
    /\ assigned = "none"
    /\ caller = "new"

\* the methods the Session sends: the handshake first, ordinary requests
\* in Operating
MethodsNow ==
    IF caller = "new" THEN {"initialize"}
    ELSE IF caller = "operating" THEN {"tools/call"}
    ELSE {}

\* request(method): the POST is sent
HttpPost(method) ==
    /\ method \in MethodsNow
    /\ Len(httpLog) < MaxHttpRequests
    /\ httpLog' = Append(httpLog, HttpRequest("POST", method))
    /\ fetches' = fetches \cup {[n |-> Len(httpLog) + 1, method |-> method]}
    /\ caller' = IF method = "initialize" THEN "initializing" ELSE caller
    /\ UNCHANGED << sessionId, assigned, notHttp >>

\* request(method), after `await fetch(...)`: the response is there, with
\* or without a session id header; its body is read as in StreamSpec
HttpResponse(f, header) ==
    /\ f \in fetches
    /\ caller # "closed"
    /\ fetches' = fetches \ {f}
    /\ sessionId' = StoredAfter(f.method, sessionId, header)
    /\ assigned' = IF f.method = "initialize" THEN header ELSE assigned
    /\ caller' = IF f.method = "initialize" THEN "operating" ELSE caller
    /\ UNCHANGED << httpLog, notHttp >>

\* request(method): fetch rejects, the request fails; a handshake that fails
\* closes the Session
HttpFetchFails(f) ==
    /\ f \in fetches
    /\ fetches' = fetches \ {f}
    /\ caller' = IF f.method = "initialize" THEN "closed" ELSE caller
    /\ UNCHANGED << sessionId, httpLog, assigned, notHttp >>

\* openNotificationStream(): the GET is sent
OpenNotificationStream ==
    /\ caller # "closed"
    /\ Len(httpLog) < MaxHttpRequests
    /\ httpLog' = Append(httpLog, HttpRequest("GET", "none"))
    /\ UNCHANGED << sessionId, fetches, assigned, caller, notHttp >>

\* close(): a DELETE for the session, if the transport has one
HttpClose ==
    /\ caller # "closed"
    /\ caller' = "closed"
    /\ httpLog' = IF sessionId # "none"
                  THEN Append(httpLog, HttpRequest("DELETE", "none"))
                  ELSE httpLog
    /\ UNCHANGED << sessionId, fetches, assigned, notHttp >>

HttpNext ==
    \/ \E method \in {"initialize", "tools/call"} : HttpPost(method)
    \/ \E f \in fetches : \E header \in SessionHeaders : HttpResponse(f, header)
    \/ \E f \in fetches : HttpFetchFails(f)
    \/ OpenNotificationStream
    \/ HttpClose

----------------------------------------------------------------------------
(* The MCP server: its command line (packages/shared/src/schemas/mcp.mts), *)
(* ChassitMCPServer and the feature flags (unnamed/part_003)               *)

MaxFlagCalls == 2    \* calls of loadMCPFlags and of the flag checkers
MaxEnvChanges == 1   \* assignments to process.env

DefaultPort == 3000
MaxPort == 65535
NoPort == 0 - 1      \* `port` is undefined

Categories == {"server", "client", "tools", "resources", "prompts"}
Capabilities == {"tools", "resources", "prompts"}

\* the environment variable behind each flag of a category
EnvVarOf ==
    [server |-> [enabled |-> "MCP_SERVER_ENABLED", stdio |-> "MCP_SERVER_STDIO",
                 http |-> "MCP_SERVER_HTTP"],
     client |-> [enabled |-> "MCP_CLIENT_ENABLED",
                 multiServer |-> "MCP_CLIENT_MULTI_SERVER"],
     tools |-> [enabled |-> "MCP_TOOLS_ENABLED",
                notebooks |-> "MCP_TOOLS_NOTEBOOKS",
                cells |-> "MCP_TOOLS_CELLS", npm |-> "MCP_TOOLS_NPM"],
     resources |-> [enabled |-> "MCP_RESOURCES_ENABLED",
                    notebooks |-> "MCP_RESOURCES_NOTEBOOKS",
                    cells |-> "MCP_RESOURCES_CELLS",
                    diagnostics |-> "MCP_RESOURCES_DIAGNOSTICS"],
     prompts |-> [enabled |-> "MCP_PROMPTS_ENABLED",
                  explore |-> "MCP_PROMPTS_EXPLORE",
                  prototype |-> "MCP_PROMPTS_PROTOTYPE"]]

\* the sub-features that are on only for 'true'; the others are on unless
\* 'false'
OptIn == {<< "server", "http" >>, << "client", "multiServer" >>}

EnvNames ==
    {"MCP_ENABLED", "NODE_ENV"} \cup
    UNION {{EnvVarOf[c][k] : k \in DOMAIN EnvVarOf[c]} : c \in Categories}

\* the variables whose value an environment of the model sets, and the value
\* each is set to
Varied ==
    [MCP_ENABLED |-> "true", MCP_TOOLS_ENABLED |-> "true",
     MCP_TOOLS_NPM |-> "false", MCP_RESOURCES_ENABLED |-> "true",
     MCP_PROMPTS_ENABLED |-> "true"]
Assignable ==
    [MCP_ENABLED |-> {"true"}, MCP_TOOLS_ENABLED |-> {"true"},
     MCP_SERVER_ENABLED |-> {"true"}, MCP_SERVER_STDIO |-> {"false"},
     NODE_ENV |-> {"development"}]

Unset == [n \in EnvNames |-> "unset"]
Envs ==
    { [n \in EnvNames |-> IF n \in set THEN Varied[n] ELSE "unset"] :
        set \in SUBSET DOMAIN Varied }

\* DEFAULT_MCP_FLAGS: everything disabled
DEFAULT_MCP_FLAGS ==
    [c \in Categories |-> [k \in DOMAIN EnvVarOf[c] |-> FALSE]]

\* a loader that leaves the objects it is given as they are
WrittenByLoadNothing(e, nested) == nested

\* loadMCPFlags, its writes: `flags = { ...DEFAULT_MCP_FLAGS }` copies the
\* references to the nested objects, and `flags.tools.enabled = true`,
\* `flags.tools.npm = ...` write into those objects
WrittenByLoad(e, nested) ==
    [c \in Categories |->
        IF e[EnvVarOf[c].enabled] = "true"
        THEN [k \in DOMAIN nested[c] |->
                IF k = "enabled" THEN TRUE
                ELSE IF << c, k >> \in OptIn THEN e[EnvVarOf[c][k]] = "true"
                ELSE e[EnvVarOf[c][k]] # "false"]
        ELSE nested[c]]

\* loadMCPFlags, its result: `enabled` is the copy's own, the categories are
\* the objects of DEFAULT_MCP_FLAGS
LoadedFlags(e, nested) ==
    [enabled |-> e["MCP_ENABLED"] = "true", nested |-> WrittenByLoad(e, nested)]

\* JavaScript values the checkers return
JsBoolean(b) == IF b THEN "true" ELSE "false"
Truthy(v) == v \in {"true", "object"}

\* isMCPFeatureEnabled(feature, flags): `mcpFlags[feature] as boolean`
isMCPFeatureEnabled(feature, flags) ==
    IF ~flags.enabled THEN "false"
    ELSE IF feature = "enabled" THEN JsBoolean(flags.enabled)
    ELSE IF feature \in Categories THEN "object"
    ELSE "undefined"

\* isMCPSubFeatureEnabled(category, subFeature, flags):
\* `categoryFlags.enabled && categoryFlags[subFeature]`
isMCPSubFeatureEnabled(category, subFeature, flags) ==
    IF ~flags.enabled THEN "false"
    ELSE IF category \in Categories
    THEN LET categoryFlags == flags.nested[category]
         IN  IF ~categoryFlags.enabled THEN "false"
             ELSE IF subFeature \in DOMAIN categoryFlags
             THEN JsBoolean(categoryFlags[subFeature])
             ELSE "undefined"
    ELSE "false"

\* validateMCPConfig: the errors it finds (the rate limit is not configured)
ValidationErrors(via, port, flags, e) ==
    (IF via = "http" /\ (port = NoPort \/ port = 0 \/ port < 1 \/ port > MaxPort)
     THEN {"port"} ELSE {})
    \cup
    (IF /\ flags.nested.server.enabled
        /\ ~flags.nested.server.stdio
        /\ ~flags.nested.server.http
     THEN {"no transport"} ELSE {})
    \cup
    (IF e["NODE_ENV"] = "development" /\ port = NoPort
     THEN {"metrics port"} ELSE {})

\* the request handlers setupHandlers registers for a category
HandlersOf(c) ==
    IF c = "tools" THEN {"tools/list", "tools/call"}
    ELSE IF c = "resources" THEN {"resources/list", "resources/read"}
    ELSE {"prompts/list", "prompts/get"}

\* a server that takes its capabilities from the enable* options as well
AdvertisedIfOption(flags, options) ==
    {c \in Capabilities : flags.nested[c].enabled /\ c \in options}

\* the capabilities the constructor hands to the SDK's Server, which are
\* also the categories setupHandlers sets up: `this.config.flags.tools.enabled`
Advertised(flags, options) == {c \in Capabilities : flags.nested[c].enabled}

NoServer ==
    [status |-> "none", transport |-> "none", port |-> NoPort,
     options |-> {}, capabilities |-> {}, handlers |-> {}]

\* new ChassitMCPServer(config), with config.transport, config.port (NoPort
\* when the property is undefined) and the enable* options that are true
Constructed(via, port, options, e, nested) ==
    LET flags == LoadedFlags(e, nested)
        errors == ValidationErrors(via, port, flags, e)
    IN  IF errors # {}
        THEN [NoServer EXCEPT !.status = "invalid"]
        ELSE IF ~flags.enabled
        THEN [NoServer EXCEPT !.status = "disabled"]
        ELSE [status |-> "constructed", transport |-> via, port |-> port,
              options |-> options,
              capabilities |-> Advertised(flags, options),
              handlers |-> UNION {HandlersOf(c) : c \in Advertised(flags, options)}]

\* the command lines: --transport, --port (NoPort: not given), the
\* --disable-* options given, --log-level debug
Ports == {NoPort, 0, DefaultPort}
CommandLines ==
    [transport : {"stdio", "http"}, port : Ports,
     disable : SUBSET Capabilities, debug : BOOLEAN]
NoCommandLine ==
    [transport |-> "stdio", port |-> NoPort, disable |-> {}, debug |-> FALSE]

\* the flags of a call of a checker, as the flags object it read has them:
\* the master flag, and the flag of the feature it was asked about
FlagAsked(feature, sub, flags) ==
    IF feature = "enabled" THEN flags.enabled /\ sub = "none"
    ELSE /\ flags.nested[feature].enabled
         /\ sub # "none" =>
                /\ sub \in DOMAIN flags.nested[feature]
                /\ flags.nested[feature][sub]

NotChecked ==
    [fn |-> "none", feature |-> "none", sub |-> "none", master |-> FALSE,
     flag |-> FALSE, value |-> "undefined"]

\* nothing of the server is in use
ServerIdle ==
    /\ env = Unset
    /\ defaultFlags = DEFAULT_MCP_FLAGS
    /\ loaded = [enabled |-> FALSE, at |-> 0]
    /\ server = NoServer
    /\ cli = "idle"
    /\ argv = NoCommandLine
    /\ checked = NotChecked
    /\ flagCalls = 0
    /\ envChanges = 0

\* a process starts in some environment
ServerReady ==
    /\ env \in Envs
    /\ defaultFlags = DEFAULT_MCP_FLAGS
    /\ loaded = [enabled |-> FALSE, at |-> 0]
    /\ server = NoServer
    /\ cli = "idle"
    /\ argv = NoCommandLine
    /\ checked = NotChecked
    /\ flagCalls = 0
    /\ envChanges = 0

\* process.env[n] = v
SetEnv(n, v) ==
    /\ envChanges < MaxEnvChanges
    /\ envChanges' = envChanges + 1
    /\ env[n] # v
    /\ env' = [env EXCEPT ![n] = v]
    /\ UNCHANGED << defaultFlags, loaded, server, cli, argv, checked,
                    flagCalls, notServer >>

\* loadMCPFlags()
LoadMCPFlags ==
    /\ flagCalls < MaxFlagCalls
    /\ flagCalls' = flagCalls + 1
    /\ defaultFlags' = WrittenByLoad(env, defaultFlags)
    /\ loaded' = [enabled |-> LoadedFlags(env, defaultFlags).enabled,
                  at |-> flagCalls + 1]
    /\ UNCHANGED << env, server, cli, argv, checked, envChanges, notServer >>

\* isMCPFeatureEnabled(feature), with no flags given: `flags || loadMCPFlags()`
IsMCPFeatureEnabled(feature) ==
    /\ flagCalls < MaxFlagCalls
    /\ flagCalls' = flagCalls + 1
    /\ defaultFlags' = WrittenByLoad(env, defaultFlags)
    /\ checked' = [fn |-> "isMCPFeatureEnabled", feature |-> feature,
                  sub |-> "none",
                  master |-> LoadedFlags(env, defaultFlags).enabled,
                  flag |-> FlagAsked(feature, "none",
                                     LoadedFlags(env, defaultFlags)),
                  value |-> isMCPFeatureEnabled(feature,
                                LoadedFlags(env, defaultFlags))]
    /\ UNCHANGED << env, loaded, server, cli, argv, envChanges, notServer >>

\* isMCPSubFeatureEnabled(category, subFeature), with no flags given
IsMCPSubFeatureEnabled(category, subFeature) ==
    /\ flagCalls < MaxFlagCalls
    /\ flagCalls' = flagCalls + 1
    /\ defaultFlags' = WrittenByLoad(env, defaultFlags)
    /\ checked' = [fn |-> "isMCPSubFeatureEnabled", feature |-> category,
                  sub |-> subFeature,
                  master |-> LoadedFlags(env, defaultFlags).enabled,
                  flag |-> FlagAsked(category, subFeature,
                                     LoadedFlags(env, defaultFlags)),
                  value |-> isMCPSubFeatureEnabled(category, subFeature,
                                LoadedFlags(env, defaultFlags))]
    /\ UNCHANGED << env, loaded, server, cli, argv, envChanges, notServer >>

\* new ChassitMCPServer({transport}) by a caller other than main(): the
\* port and the enable* options are those of getDefaultMCPConfig
Construct(via) ==
    /\ cli = "idle"
    /\ server.status = "none"
    /\ server' = Constructed(via, DefaultPort, Capabilities, env,
                             defaultFlags)
    /\ defaultFlags' = WrittenByLoad(env, defaultFlags)
    /\ UNCHANGED << env, loaded, cli, argv, checked, flagCalls, envChanges,
                    notServer >>

\* the environment main() constructs the server in: --log-level debug sets
\* NODE_ENV
EnvOfMain(e, line) ==
    IF line.debug THEN [e EXCEPT !["NODE_ENV"] = "development"] ELSE e

\* main(), to the end of server.start()'s synchronous part: parseArgs, the
\* constructor given `port: args.port` and the enable* options, start()
Main(line) ==
    /\ cli = "idle"
    /\ server.status = "none"
    /\ argv' = line
    /\ env' = EnvOfMain(env, line)
    /\ defaultFlags' = WrittenByLoad(env, defaultFlags)
    /\ LET made == Constructed(line.transport, line.port,
                               Capabilities \ line.disable,
                               EnvOfMain(env, line), defaultFlags)
       IN  /\ server' = made
           /\ cli' = IF made.status # "constructed" THEN "exit 1"
                     ELSE IF made.transport # "stdio" THEN "exit 1"
                     ELSE "connecting"
    /\ UNCHANGED << loaded, checked, flagCalls, envChanges, notServer >>

\* server.connect(transport) resolves: main() prints that the server runs
ServerConnected ==
    /\ cli = "connecting"
    /\ cli' = "running"
    /\ server' = [server EXCEPT !.status = "started"]
    /\ UNCHANGED << env, defaultFlags, loaded, argv, checked, flagCalls,
                    envChanges, notServer >>

\* server.connect(transport) rejects: main() exits
ServerConnectFails ==
    /\ cli = "connecting"
    /\ cli' = "exit 1"
    /\ UNCHANGED << env, defaultFlags, loaded, server, argv, checked,
                    flagCalls, envChanges, notServer >>

\* the arguments the checkers are called with
Features == {"enabled", "tools", "server"}
SubFeatures == {"npm", "missing"}

\* the feature flags and those who ask for them
FlagsNext ==
    \/ \E n \in DOMAIN Assignable : \E v \in Assignable[n] \cup {"unset"} : SetEnv(n, v)
    \/ LoadMCPFlags
    \/ \E feature \in Features : IsMCPFeatureEnabled(feature)
    \/ \E category \in Features : \E subFeature \in SubFeatures :
          IsMCPSubFeatureEnabled(category, subFeature)

\* the server, constructed by main() or by another caller
ServerNext ==
    \/ \E n \in DOMAIN Assignable : \E v \in Assignable[n] \cup {"unset"} : SetEnv(n, v)
    \/ \E via \in {"stdio", "http"} : Construct(via)
    \/ \E line \in CommandLines : Main(line)
    \/ ServerConnected
    \/ ServerConnectFails

----------------------------------------------------------------------------
(* Session lifecycle (section 4.5) *)

\* a guard that lets calls through before the handshake is over
CanCallEarly(s) == s \in {"Initializing", "Operating"}

\* ordinary request/notify calls succeed only here
CanCall(s) == s = "Operating"

\* a guard that forgets the close in progress
CloseIsNoopOnceClosed(s) == s = "Closed"

\* close() on a Session already shutting down or closed does nothing
CloseIsNoop(s) == s \in {"ShuttingDown", "Closed"}

\* what the handshake Response r makes of an Initializing Session
HandshakeError(r) ==
    IF r.kind = "error" THEN "RpcError"
    ELSE IF r.val \notin Versions THEN "MalformedMessage"
    ELSE IF ~Compatible(r.val) THEN "ProtocolVersionMismatch"
    ELSE "none"

\* a handshake that does not look at its Response
HandshakeNextUnchecked(r) == "Operating"

HandshakeNext(r) ==
    IF HandshakeError(r) = "none" THEN "Operating" ELSE "Closed"

SessionInit ==
    /\ strays = 0   \* the peer has sent nothing yet
    /\ state = "Uninitialized"
    /\ transport = "unopened"
    /\ nextId = 1
    /\ pending = {}
    /\ outcome = [i \in Ids |-> NoOutcome]
    /\ settled = [i \in Ids |-> 0]
    /\ resolvedBy = [i \in Ids |-> 0]
    /\ issued = << >>
    /\ sentLog = << >>
    /\ wireIn = {}
    /\ answered = {}
    /\ anomalies = 0
    /\ now = 0
    /\ closeDeadline = 0
    /\ calls = 0
    /\ lastCall = [op |-> "none", result |-> "none"]
    /\ openError = "none"
    /\ transportCloses = 0
    /\ closeCalls = 0

\* Session.open(): the Transport connects and the handshake Request is sent
Open ==
    /\ state = "Uninitialized"
    /\ now + DefaultTimeout <= MaxTime
    /\ state' = "Initializing"
    /\ transport' = "open"
    /\ pending' = pending \cup {PendingEntry(nextId, "initialize", DefaultTimeout)}
    /\ issued' = Append(issued, nextId)
    /\ sentLog' = Append(sentLog, RequestMessage(nextId, "initialize"))
    /\ nextId' = GenerateId(nextId)
    /\ UNCHANGED << outcome, settled, resolvedBy, wireIn, answered, anomalies, now, closeDeadline, calls, lastCall, openError,
                    transportCloses, closeCalls,
                    notSession >>

\* Session.open() when the Transport cannot connect
OpenFails ==
    /\ state = "Uninitialized"
    /\ state' = "Closed"
    /\ transport' = "closed"
    /\ openError' = "TransportError"
    /\ UNCHANGED << nextId, pending, outcome, settled, resolvedBy, issued,
                    sentLog, wireIn, answered, anomalies, now,
                    closeDeadline, calls, lastCall, transportCloses,
                    closeCalls,
                    notSession >>

\* Session.request(method, params, timeoutMs)
Request(timeout) ==
    /\ IF CanCall(state)
       THEN /\ calls < MaxCalls
            /\ calls' = calls + 1
            /\ now + timeout <= MaxTime
            /\ pending' = pending \cup {PendingEntry(nextId, "tools/call", timeout)}
            /\ issued' = Append(issued, nextId)
            /\ sentLog' = Append(sentLog, RequestMessage(nextId, "tools/call"))
            /\ nextId' = GenerateId(nextId)
            /\ lastCall' = [op |-> "request", result |-> "suspended"]
       ELSE /\ lastCall' = [op |-> "request", result |-> "SessionNotReady"]
            /\ UNCHANGED << pending, issued, sentLog, nextId, calls >>
    /\ UNCHANGED << state, transport, outcome, settled, resolvedBy, wireIn,
                    answered, anomalies, now, closeDeadline, openError,
                    transportCloses, closeCalls,
                    notSession >>

\* Session.notify(method, params): fire-and-forget
Notify ==
    /\ IF CanCall(state)
       THEN /\ calls < MaxCalls
            /\ calls' = calls + 1
            /\ sentLog' = Append(sentLog, NotificationMessage("notifications/progress"))
            /\ lastCall' = [op |-> "notify", result |-> "ok"]
       ELSE /\ lastCall' = [op |-> "notify", result |-> "SessionNotReady"]
            /\ UNCHANGED << sentLog, calls >>
    /\ UNCHANGED << state, transport, nextId, pending, outcome, settled,
                    resolvedBy, issued, wireIn, answered, anomalies, now,
                    closeDeadline, openError, transportCloses, closeCalls,
                    notSession >>

\* the Session reaches Closed: the Transport is closed, what it still carried
\* is lost and what is still pending is cancelled
EnterClosed(m, rest) ==
    /\ state' = "Closed"
    /\ transport' = "closed"
    /\ pending' = {}
    /\ wireIn' = {}
    /\ closeDeadline' = 0
    /\ ApplySettlements(m @@ CancelAll(CancelledAtClose(rest)))

\* a Response is read off the Transport and handed to the Correlator
Deliver(r) ==
    /\ transport \in {"open", "closing"}
    /\ r \in wireIn
    /\ LET hit == {e \in pending : Matches(r, e)}
           handshake == state = "Initializing" /\ \E e \in hit : e.method = "initialize"
       IN  IF hit = {}
           THEN /\ anomalies' = anomalies + 1
                /\ wireIn' = wireIn \ {r}
                /\ UNCHANGED << state, transport, pending, outcome, settled,
                                resolvedBy, closeDeadline, openError,
                                transportCloses >>
           ELSE IF handshake /\ HandshakeNext(r) = "Closed"
           THEN /\ EnterClosed(SettleBy(hit, r), AfterSettle(pending, hit))
                /\ openError' = HandshakeError(r)
                /\ transportCloses' = transportCloses + 1
                /\ UNCHANGED anomalies
           ELSE /\ state' = IF handshake THEN HandshakeNext(r) ELSE state
                /\ pending' = AfterSettle(pending, hit)
                /\ wireIn' = wireIn \ {r}
                /\ ApplySettlements(SettleBy(hit, r))
                /\ UNCHANGED << transport, anomalies, closeDeadline, openError,
                                transportCloses >>
    /\ UNCHANGED << nextId, issued, sentLog, answered, now, calls,
                    lastCall, closeCalls,
                    notSession >>

\* the timer of the pending entry e fires
Timeout(e) ==
    /\ e \in pending
    /\ now >= e.deadline
    /\ IF state = "Initializing" /\ e.method = "initialize"
       THEN /\ EnterClosed(e.id :> [o |-> TimedOut, by |-> 0], AfterTimeout(pending, e))
            /\ openError' = "Timeout"
            /\ transportCloses' = transportCloses + 1
       ELSE /\ pending' = AfterTimeout(pending, e)
            /\ ApplySettlements(e.id :> [o |-> TimedOut, by |-> 0])
            /\ UNCHANGED << state, transport, wireIn, closeDeadline, openError,
                            transportCloses >>
    /\ UNCHANGED << nextId, issued, sentLog, answered, anomalies,
                    now, calls, lastCall, closeCalls,
                    notSession >>

\* time passes; a timer that is due fires before time passes further. Time
\* is followed up to MaxTime, and further while the grace period is running
Tick ==
    /\ now < MaxTime \/ (state = "ShuttingDown" /\ now < closeDeadline)
    /\ \A e \in pending : now < e.deadline
    /\ state = "ShuttingDown" => now < closeDeadline
    /\ now' = now + 1
    /\ UNCHANGED << state, transport, nextId, pending, outcome, settled,
                    resolvedBy, issued, sentLog, wireIn, answered, anomalies, closeDeadline, calls, lastCall, openError,
                    transportCloses, closeCalls,
                    notSession >>

\* Session.close(); sendOk: whether the shutdown notification could be sent
Close(sendOk) ==
    /\ closeCalls < MaxCloses
    /\ closeCalls' = closeCalls + 1
    /\ IF CloseIsNoop(state)
       THEN UNCHANGED << state, transport, pending, outcome, settled, resolvedBy,
                         sentLog, wireIn, closeDeadline, transportCloses >>
       ELSE IF state = "Uninitialized"
       THEN /\ EnterClosed(<< >>, pending)
            /\ UNCHANGED << sentLog, transportCloses >>
       ELSE /\ state' = "ShuttingDown"
            /\ sentLog' = IF sendOk
                          THEN Append(sentLog, NotificationMessage("shutdown"))
                          ELSE sentLog
            /\ transport' = "closing"
            /\ transportCloses' = transportCloses + 1
            /\ closeDeadline' = now + GracePeriod
            /\ UNCHANGED << pending, outcome, settled, resolvedBy, wireIn >>
    /\ UNCHANGED << nextId, issued, answered, anomalies, now,
                    calls, lastCall, openError, notSession >>

\* ShuttingDown -> Closed: the Transport reports closed
TransportClosed ==
    /\ state = "ShuttingDown"
    /\ transport = "closing"
    /\ EnterClosed(<< >>, pending)
    /\ UNCHANGED << nextId, issued, sentLog, answered, anomalies,
                    now, calls, lastCall, openError, transportCloses,
                    closeCalls,
                    notSession >>

\* a grace period that never ends
GraceOverNever(t, deadline) == FALSE

\* the bounded grace period is over
GraceOver(t, deadline) == t >= deadline

\* ShuttingDown -> Closed: the grace period has elapsed
GraceElapsed ==
    /\ state = "ShuttingDown"
    /\ GraceOver(now, closeDeadline)
    /\ EnterClosed(<< >>, pending)
    /\ UNCHANGED << nextId, issued, sentLog, answered, anomalies,
                    now, calls, lastCall, openError, transportCloses,
                    closeCalls,
                    notSession >>

\* a loss of the Transport that fails no request
FailedAtLossNone(P) == {}

\* the entries failed when the Transport is lost
FailedAtLoss(P) == P

\* the Transport is lost: the child process exits, the connection drops
TransportLost ==
    /\ transport = "open"
    /\ EnterClosed(CancelAll(FailedAtLoss(pending)), {})
    /\ openError' = IF state = "Initializing" THEN "TransportError" ELSE openError
    /\ UNCHANGED << nextId, issued, sentLog, answered, anomalies,
                    now, calls, lastCall, transportCloses, closeCalls,
                    notSession >>

----------------------------------------------------------------------------
(* The peer *)

RequestsSent == {sentLog[k] : k \in {j \in 1..Len(sentLog) : sentLog[j].type = "request"}}

\* the peer answers a Request it has received
PeerRespond(m, kind, val) ==
    /\ transport \in {"open", "closing"}
    /\ m \in RequestsSent
    /\ m.id \notin answered
    /\ answered' = answered \cup {m.id}
    /\ wireIn' = wireIn \cup {ResponseMessage(m.id, kind, val)}
    /\ UNCHANGED << state, transport, nextId, pending, outcome, settled,
                    resolvedBy, issued, sentLog, anomalies, now,
                    closeDeadline, calls, lastCall, openError, transportCloses,
                    closeCalls,
                    notSession >>

\* the result the peer computes for the Request with this id
ResultOf(id) == ToString(id)

\* what the peer may answer to the Request m
Answers(m) ==
    { << "error", ErrorCode >> } \cup
    IF m.method = "initialize"
    THEN { << "result", v >> : v \in Versions \cup {"missing"} }
    ELSE { << "result", ResultOf(m.id) >> }

Next ==
    \/ Open
    \/ OpenFails
    \/ \E t \in Timeouts : Request(t)
    \/ Notify
    \/ \E r \in wireIn : Deliver(r)
    \/ \E e \in pending : Timeout(e)
    \/ Tick
    \/ \E ok \in BOOLEAN : Close(ok)
    \/ TransportClosed
    \/ GraceElapsed
    \/ TransportLost
    \/ \E m \in RequestsSent : \E a \in Answers(m) : PeerRespond(m, a[1], a[2])

\* the Session from open to Closed, with no ordinary call
ShutdownNext ==
    \/ Open
    \/ OpenFails
    \/ \E r \in wireIn : Deliver(r)
    \/ \E e \in pending : Timeout(e)
    \/ Tick
    \/ \E ok \in BOOLEAN : Close(ok)
    \/ TransportClosed
    \/ GraceElapsed
    \/ TransportLost
    \/ \E m \in RequestsSent : \E a \in Answers(m) : PeerRespond(m, a[1], a[2])

----------------------------------------------------------------------------
(* The MCPMonitor of src/unnamed/part_002: its metrics, its event log, its
   response-time buffer, the snapshot getMetrics() hands out and the verdict
   of getHealthStatus().  The log and the buffer keep 1000 events and 100
   durations in the program; the model keeps EventLogSize and BUFFER_SIZE of
   them, small enough for the caps to be reached.  The rates of the health
   verdict are compared as integers: error / total > 0.1 is
   error * 10 > total. *)

MaxRecorded == 3     \* calls of recordEvent
MaxWrites == 1       \* writes of a caller to a snapshot it was given
EventLogSize == 2    \* events the log keeps (1000 in the program)
BUFFER_SIZE == 2     \* durations the buffer keeps (100 in the program)
MAX_SAFE_INTEGER == 999999   \* above every duration, as 2^53 - 1 is
DefaultLimit == 100  \* getEvents(limit = 100)

MathMax(a, b) == IF a >= b THEN a ELSE b
MathMin(a, b) == IF a <= b THEN a ELSE b

\* Array.prototype.slice(start): a negative start counts from the end, and
\* -0 is 0, the start of the array
Slice(s, start) ==
    LET from == IF start < 0 THEN MathMax(Len(s) + start, 0)
                ELSE MathMin(start, Len(s))
    IN  SubSeq(s, from + 1, Len(s))

RECURSIVE Insert(_, _)
Insert(d, sorted) ==
    IF sorted = << >> THEN << d >>
    ELSE IF d <= Head(sorted) THEN << d >> \o sorted
    ELSE << Head(sorted) >> \o Insert(d, Tail(sorted))

\* [...buffer].sort((a, b) => a - b)
RECURSIVE Sorted(_)
Sorted(s) == IF s = << >> THEN << >> ELSE Insert(Head(s), Sorted(Tail(s)))

RECURSIVE Sum(_)
Sum(s) == IF s = << >> THEN 0 ELSE Head(s) + Sum(Tail(s))

\* the events of the model: one method, one tool and one resource; the
\* durations lie on both sides of the 500 ms and 1000 ms marks
MCPEvent(type, duration, success) ==
    [type |-> type, duration |-> duration, success |-> success]

MCPEvents ==
    { MCPEvent("request.received", 0, TRUE),
      MCPEvent("request.completed", 100, TRUE),
      MCPEvent("request.completed", 100, FALSE),
      MCPEvent("request.completed", 600, TRUE),
      MCPEvent("request.completed", 1100, TRUE),
      MCPEvent("connection.opened", 0, TRUE),
      MCPEvent("connection.closed", 0, TRUE),
      MCPEvent("tool.executed", 100, FALSE),
      MCPEvent("resource.read", 100, TRUE),
      MCPEvent("error.occurred", 0, TRUE) }

\* the metrics the constructor builds, and reset() builds again
FreshMetrics ==
    [requests |-> [total |-> 0, success |-> 0, error |-> 0, byMethod |-> 0],
     performance |-> [avgResponseTime |-> 0, p95ResponseTime |-> 0,
                      maxResponseTime |-> 0,
                      minResponseTime |-> MAX_SAFE_INTEGER],
     connections |-> [active |-> 0, total |-> 0, failed |-> 0],
     tools |-> [executions |-> 0, failures |-> 0, avgExecutionTime |-> 0,
                byTool |-> [count |-> 0, avgTime |-> 0]],
     resources |-> [reads |-> 0, failures |-> 0, avgReadTime |-> 0,
                    byResource |-> 0]]

FreshMonitor(enabled) ==
    [enabled |-> enabled, metrics |-> FreshMetrics, events |-> << >>,
     responseTimeBuffer |-> << >>]

\* if (!this.config.monitoring.enabled) return;
MonitoringAlways(m) == TRUE
MonitoringEnabled(m) == m.enabled

\* this.metrics.requests.total++
ReceivedUncounted(total) == total
Received(total) == total + 1

\* Math.max(0, active - 1)
ClosedUnclamped(active) == active - 1
Closed(active) == MathMax(0, active - 1)

\* the buffer after push and shift
Buffered(times, duration) ==
    LET pushed == Append(times, duration)
    IN  IF Len(pushed) > BUFFER_SIZE THEN Tail(pushed) ELSE pushed

\* sorted[Math.floor(sorted.length * 0.95)]
P95(times) == Sorted(times)[((Len(times) * 95) \div 100) + 1]

updateResponseTimes(m, duration) ==
    LET times == Buffered(m.responseTimeBuffer, duration)
        p == m.metrics.performance
    IN  [m EXCEPT
           !.responseTimeBuffer = times,
           !.metrics.performance =
               [avgResponseTime |-> Sum(times) \div Len(times),
                p95ResponseTime |-> P95(times),
                maxResponseTime |-> MathMax(p.maxResponseTime, duration),
                minResponseTime |-> MathMin(p.minResponseTime, duration)]]

updateMetrics(m, event) ==
    CASE event.type = "request.received" ->
           [m EXCEPT !.metrics.requests.total = Received(@),
                     !.metrics.requests.byMethod = @ + 1]
      [] event.type = "request.completed" ->
           updateResponseTimes(
               IF event.success
               THEN [m EXCEPT !.metrics.requests.success = @ + 1]
               ELSE [m EXCEPT !.metrics.requests.error = @ + 1],
               event.duration)
      [] event.type = "connection.opened" ->
           [m EXCEPT !.metrics.connections.active = @ + 1,
                     !.metrics.connections.total = @ + 1]
      [] event.type = "connection.closed" ->
           [m EXCEPT !.metrics.connections.active = Closed(@)]
      [] event.type = "tool.executed" ->
           LET t == m.metrics.tools
               executions == t.executions + 1
               newCount == t.byTool.count + 1
           IN  [m EXCEPT !.metrics.tools =
                   [executions |-> executions,
                    failures |-> IF event.success THEN t.failures
                                 ELSE t.failures + 1,
                    avgExecutionTime |->
                        (t.avgExecutionTime * (executions - 1)
                         + event.duration) \div executions,
                    byTool |->
                        [count |-> newCount,
                         avgTime |-> (t.byTool.avgTime * t.byTool.count
                                      + event.duration) \div newCount]]]
      [] event.type = "resource.read" ->
           LET r == m.metrics.resources
               reads == r.reads + 1
           IN  [m EXCEPT !.metrics.resources =
                   [reads |-> reads,
                    failures |-> IF event.success THEN r.failures
                                 ELSE r.failures + 1,
                    avgReadTime |-> (r.avgReadTime * (reads - 1)
                                     + event.duration) \div reads,
                    byResource |-> r.byResource + 1]]
      [] OTHER -> m

\* the log after push and slice(-1000)
Logged(events, event) ==
    LET pushed == Append(events, event)
    IN  IF Len(pushed) > EventLogSize THEN Slice(pushed, 0 - EventLogSize)
        ELSE pushed

\* recordEvent(event), on the monitor m
recordEvent(m, event) ==
    IF ~MonitoringEnabled(m) THEN m
    ELSE updateMetrics([m EXCEPT !.events = Logged(m.events, event)], event)

\* the monitor after the events of a sequence, recorded in order
RECURSIVE Replay(_, _)
Replay(m, events) ==
    IF events = << >> THEN m
    ELSE Replay(recordEvent(m, Head(events)), Tail(events))

\* a status, raised by one check of getHealthStatus
EscalateOverwrite(status, level) == level
Escalate(status, level) ==
    IF level = "critical" THEN "critical"
    ELSE IF status = "healthy" THEN "warning"
    ELSE status

\* one check of getHealthStatus: over the first mark it is critical, over
\* the second it is a warning; each adds its issue
Checked(verdict, critical, warning, issue) ==
    IF critical
    THEN [status |-> Escalate(verdict.status, "critical"),
          issues |-> verdict.issues \cup {"High " \o issue}]
    ELSE IF warning
    THEN [status |-> Escalate(verdict.status, "warning"),
          issues |-> verdict.issues \cup {"Elevated " \o issue}]
    ELSE verdict

getHealthStatus(m) ==
    LET r == m.metrics.requests
        c == m.metrics.connections
        p95 == m.metrics.performance.p95ResponseTime
        byErrors ==
            Checked([status |-> "healthy", issues |-> {}],
                    r.total > 0 /\ r.error * 10 > r.total,
                    r.total > 0 /\ r.error * 20 > r.total,
                    "error rate")
        byTime ==
            Checked(byErrors, p95 > 1000, p95 > 500, "P95 response time")
    IN  Checked(byTime, c.total > 0 /\ c.failed * 5 > c.total, FALSE,
                "connection failure rate")

\* this.events.slice(-limit)
getEvents(m, limit) == Slice(m.events, 0 - limit)

Limits == {0, 1, DefaultLimit}

\* a monitor that has already served k requests, each received and then
\* completed at once
RECURSIVE Served(_)
Served(k) ==
    IF k = 0 THEN << >>
    ELSE Served(k - 1) \o << MCPEvent("request.received", 0, TRUE),
                             MCPEvent("request.completed", 100, TRUE) >>

WarmUps == {0, 9}

\* getMetrics was not called yet
NoSnapshot == [taken |-> FALSE, shared |-> FALSE, held |-> "none"]
NotObserved ==
    [call |-> "none", limit |-> 0, events |-> << >>, status |-> "none",
     issues |-> {}]
NoCalls ==
    [recorded |-> 0, writes |-> 0, awaited |-> 0, orphaned |-> FALSE,
     wasReset |-> FALSE, since |-> << >>]

\* no monitor is constructed in this process
MonitorIdle ==
    /\ monitor = "none"
    /\ snapshot = NoSnapshot
    /\ observed = NotObserved
    /\ tally = NoCalls

\* a monitor constructed with monitoring on or off, fresh or warmed up
MonitorReady ==
    /\ \E enabled \in BOOLEAN : \E k \in WarmUps :
         monitor = Replay(FreshMonitor(enabled), Served(k))
    /\ snapshot = NoSnapshot
    /\ observed = NotObserved
    /\ tally = NoCalls

\* recordEvent(event).  The nested objects of a snapshot taken since the
\* last reset are the monitor's own, so the snapshot sees the update.
RecordEvent(event) ==
    /\ tally.recorded < MaxRecorded
    /\ monitor' = recordEvent(monitor, event)
    /\ snapshot' = IF snapshot.shared
                   THEN [snapshot EXCEPT !.held = monitor'.metrics]
                   ELSE snapshot
    /\ tally' =
         [tally EXCEPT
            !.recorded = @ + 1,
            !.awaited =
                IF event.type = "request.received" THEN @ + 1
                ELSE IF event.type = "request.completed"
                THEN MathMax(0, @ - 1)
                ELSE @,
            !.orphaned =
                @ \/ (event.type = "request.completed" /\ tally.awaited = 0),
            !.since = IF tally.wasReset THEN Append(@, event) ELSE @]
    /\ UNCHANGED << observed, notMonitor >>

\* getMetrics(): { ...this.metrics } copies the five references
GetMetrics ==
    /\ snapshot' = [taken |-> TRUE, shared |-> TRUE, held |-> monitor.metrics]
    /\ UNCHANGED << monitor, observed, tally, notMonitor >>

\* the caller writes snapshot.requests.total++ on the object it was given
WriteSnapshot ==
    /\ tally.writes < MaxWrites
    /\ snapshot.taken
    /\ snapshot' = [snapshot EXCEPT !.held.requests.total = @ + 1]
    /\ monitor' = IF snapshot.shared
                  THEN [monitor EXCEPT !.metrics = snapshot'.held]
                  ELSE monitor
    /\ tally' = [tally EXCEPT !.writes = @ + 1]
    /\ UNCHANGED << observed, notMonitor >>

GetHealthStatus ==
    /\ observed' = [call |-> "getHealthStatus", limit |-> 0,
                    events |-> << >>,
                    status |-> getHealthStatus(monitor).status,
                    issues |-> getHealthStatus(monitor).issues]
    /\ UNCHANGED << monitor, snapshot, tally, notMonitor >>

GetEvents(limit) ==
    /\ observed' = [call |-> "getEvents", limit |-> limit,
                    events |-> getEvents(monitor, limit),
                    status |-> "none", issues |-> {}]
    /\ UNCHANGED << monitor, snapshot, tally, notMonitor >>

\* the buffer reset() leaves
ResponseTimesKept(times) == times
ResponseTimesAfterReset(times) == << >>

\* reset(): this.metrics is a new object, a snapshot keeps the old one
Reset ==
    /\ monitor' = [enabled |-> monitor.enabled,
                   metrics |-> FreshMetrics,
                   events |-> << >>,
                   responseTimeBuffer |->
                       ResponseTimesAfterReset(monitor.responseTimeBuffer)]
    /\ snapshot' = [snapshot EXCEPT !.shared = FALSE]
    /\ tally' = [tally EXCEPT !.wasReset = TRUE, !.since = << >>]
    /\ UNCHANGED << observed, notMonitor >>

\* the monitor, its events and its queries
MonitorNext ==
    \/ \E event \in MCPEvents : RecordEvent(event)
    \/ GetHealthStatus
    \/ \E limit \in Limits : GetEvents(limit)
    \/ Reset

\* the monitor and a caller holding a snapshot of its metrics
SnapshotNext ==
    \/ \E event \in MCPEvents : RecordEvent(event)
    \/ GetMetrics
    \/ WriteSnapshot
    \/ Reset

Init ==
    /\ SessionInit /\ BreakerIdle /\ StreamIdle /\ CodecIdle /\ FactoryIdle
    /\ HttpIdle /\ ServerIdle /\ MonitorIdle

Spec == Init /\ [][Next]_vars

\* time passes and the timers that are due fire; the Transport and the peer
\* owe nothing
ShutdownSpec ==
    /\ Init
    /\ [][ShutdownNext]_vars
    /\ WF_vars(Tick)
    /\ WF_vars(GraceElapsed)
    /\ WF_vars(\E e \in pending : Timeout(e))

BreakerInit ==
    /\ SessionInit /\ BreakerConfigured /\ StreamIdle /\ CodecIdle /\ FactoryIdle
    /\ HttpIdle /\ ServerIdle /\ MonitorIdle

BreakerSpec == BreakerInit /\ [][BreakerNext]_vars

StreamInit ==
    /\ SessionInit /\ BreakerIdle /\ StreamOpened /\ CodecIdle /\ FactoryIdle
    /\ HttpIdle /\ ServerIdle /\ MonitorIdle

StreamSpec == StreamInit /\ [][StreamNext]_vars

CodecInit ==
    /\ SessionInit /\ BreakerIdle /\ StreamIdle /\ CodecReceived /\ FactoryIdle
    /\ HttpIdle /\ ServerIdle /\ MonitorIdle

CodecSpec == CodecInit /\ [][CodecNext]_vars

FactoryInit ==
    /\ SessionInit /\ BreakerIdle /\ StreamIdle /\ CodecIdle /\ FactoryReady
    /\ HttpIdle /\ ServerIdle /\ MonitorIdle

FactorySpec == FactoryInit /\ [][FactoryNext]_vars

HttpSpec == Init /\ [][HttpNext]_vars

ServerInit ==
    /\ SessionInit /\ BreakerIdle /\ StreamIdle /\ CodecIdle /\ FactoryIdle
    /\ HttpIdle /\ ServerReady /\ MonitorIdle

ServerSpec == ServerInit /\ [][ServerNext]_vars

FlagsSpec == ServerInit /\ [][FlagsNext]_vars

MonitorInit ==
    /\ SessionInit /\ BreakerIdle /\ StreamIdle /\ CodecIdle /\ FactoryIdle
    /\ HttpIdle /\ ServerIdle /\ MonitorReady

MonitorSpec == MonitorInit /\ [][MonitorNext]_vars

SnapshotSpec == MonitorInit /\ [][SnapshotNext]_vars

\* the event loop runs: a timer that is armed fires (setTimeout, 10 s)
FactoryLiveSpec == FactoryInit /\ [][FactoryNext]_vars /\ WF_vars(TimerFires)

----------------------------------------------------------------------------
(* The Message Correlator under a peer that also sends Responses nobody   *)
(* asked for, and callers that give up waiting                            *)

MaxStrays == 1     \* unsolicited Responses the peer sends

\* the ids an unsolicited Response may carry: that of the handshake, that
\* of the first ordinary request, and one the Session never issues
StrayIds == {GenerateId(0), GenerateId(GenerateId(0)), MaxId + 1}

\* the peer sends a Response to no Request of its own accord, or a second
\* Response to a Request it has answered
PeerStray(id) ==
    /\ transport = "open"
    /\ strays < MaxStrays
    /\ strays' = strays + 1
    /\ wireIn' = wireIn \cup {ResponseMessage(id, "result", "stray")}
    /\ UNCHANGED << state, transport, nextId, pending, outcome, settled,
                    resolvedBy, issued, sentLog, answered, anomalies, now,
                    closeDeadline, calls, lastCall, openError, transportCloses,
                    closeCalls, breakerVars, streamVars, codecVars,
                    factoryVars, httpVars,
       serverVars, monitorVars >>

\* the caller of the pending request e cancels its wait: the entry is
\* removed at once and the caller fails with Cancelled
CancelWait(e) ==
    /\ state = "Operating"
    /\ e \in pending
    /\ pending' = pending \ {e}
    /\ ApplySettlements(e.id :> [o |-> Cancelled, by |-> 0])
    /\ UNCHANGED << state, transport, nextId, issued, sentLog, wireIn,
                    answered, anomalies, now, closeDeadline, calls, lastCall,
                    openError, transportCloses, closeCalls, notSession >>

CorrelatorNext ==
    \/ Open
    \/ \E t \in Timeouts : Request(t)
    \/ \E r \in wireIn : Deliver(r)
    \/ \E e \in pending : Timeout(e)
    \/ \E e \in pending : CancelWait(e)
    \/ Tick
    \/ \E m \in RequestsSent : \E a \in Answers(m) : PeerRespond(m, a[1], a[2])
    \/ \E id \in StrayIds : PeerStray(id)

CorrelatorSpec == Init /\ [][CorrelatorNext]_vars

----------------------------------------------------------------------------
(* Properties of the Session and its Message Correlator *)

Range(f) == {f[k] : k \in DOMAIN f}

IssuedIds == Range(issued)

CompatibleVersions == {EngineVersion} \cup CompatWindow

\* the Responses consumed off the wire by this step, the Transport staying as
\* it is: the Response a Deliver step hands to the Correlator
Consumed(r) == r \in wireIn /\ r \notin wireIn' /\ transport' = transport

\* C1: whatever the order in which the Responses are delivered, every
\* caller's send is settled at most once, a request that is no longer pending
\* has been settled exactly once, and a caller settled by a Response was
\* settled by the Response carrying its own id, with that Response's result
\* or error.
C1_Correlation ==
    \A i \in Ids :
        /\ settled[i] <= 1
        /\ i \in PendingIds => i \in IssuedIds /\ settled[i] = 0
        /\ i \in IssuedIds \ PendingIds => settled[i] = 1
        /\ i \notin IssuedIds => settled[i] = 0 /\ outcome[i] = NoOutcome
        /\ outcome[i].kind \in {"Result", "RpcError"} => resolvedBy[i] = i
        /\ outcome[i].kind = "Result" /\ i > 1 => outcome[i].val = ToString(i)
        /\ outcome[i].kind = "RpcError" => outcome[i].val = ErrorCode

\* two requests were in flight together and the later one was answered first
C1_Witness ==
    /\ 2 \in PendingIds
    /\ outcome[3] = [kind |-> "Result", val |-> ToString(3)]
    /\ resolvedBy[3] = 3

IsCall == calls' # calls \/ lastCall' # lastCall

Incompatible(r) ==
    r.kind = "result" /\ r.val \in Versions \ CompatibleVersions

\* what has been written to the Transport besides the handshake and the
\* shutdown notification
OrdinarySent ==
    {k \in 1..Len(sentLog) : sentLog[k].method \notin {"initialize", "shutdown"}}

C7_IdempotentClose ==
    /\ [][closeCalls' # closeCalls /\ (closeCalls >= 1 \/ state \in {"ShuttingDown", "Closed"})
            => UNCHANGED << state, transport, nextId, pending, outcome, settled,
                            resolvedBy, issued, sentLog, wireIn, answered,
                            anomalies, now, closeDeadline, calls, lastCall,
                            openError, transportCloses >>]_vars
    /\ [](transportCloses <= 1)
    /\ [](\A i \in Ids : settled[i] <= 1)
    /\ [](closeCalls >= 1 => state \in {"ShuttingDown", "Closed"})

\* close() was called a second time while the first was still in progress,
\* with a request pending
C7_Witness ==
    /\ closeCalls = 2
    /\ state = "ShuttingDown"
    /\ pending # {}
    /\ transportCloses = 1

\* the ids of the Requests written to the Transport, in order
RECURSIVE RequestIds(_)
RequestIds(log) ==
    IF log = << >> THEN << >>
    ELSE IF log[1].type = "request"
         THEN << log[1].id >> \o RequestIds(Tail(log))
         ELSE RequestIds(Tail(log))

\* C8: every id the Session issues is strictly greater than every id it
\* issued before, whatever became of the earlier requests, and the Requests
\* on the wire carry exactly these ids.
C8_FreshIds ==
    /\ \A j, k \in 1..Len(issued) : j < k => issued[j] < issued[k]
    /\ RequestIds(sentLog) = issued
    /\ \A e \in pending : e.id < nextId

\* a request was issued after an earlier one had completed and another had
\* timed out
C8_Witness ==
    /\ Len(issued) = 3
    /\ outcome[1].kind = "Result"
    /\ outcome[2].kind = "Timeout"
    /\ 3 \in PendingIds

C19_UnmatchedDiscarded ==
    /\ [][\A r \in wireIn :
             /\ r \notin wireIn'
             /\ transport' # "closed"
             /\ \A e \in pending : e.id # r.id
             => /\ pending' = pending
                /\ outcome' = outcome
                /\ settled' = settled
                /\ resolvedBy' = resolvedBy
                /\ state' = state
                /\ anomalies' = anomalies + 1]_vars
    /\ [][\A i \in Ids :
             settled[i] >= 1
             => /\ settled'[i] = settled[i]
                /\ outcome'[i] = outcome[i]
                /\ resolvedBy'[i] = resolvedBy[i]]_vars

\* two Responses or more have been discarded, among them the peer's answer
\* to a request whose caller had cancelled its wait and an unsolicited one;
\* every slot is as it was settled
C19_Witness ==
    /\ anomalies >= 2
    /\ strays = 1
    /\ wireIn = {}
    /\ pending = {}
    /\ \E i, j \in IssuedIds :
           /\ outcome[i] = Cancelled
           /\ i \in answered
           /\ outcome[j].kind = "Result"
           /\ resolvedBy[j] = j
    /\ \A i \in IssuedIds : settled[i] = 1
    /\ state = "Operating"

----------------------------------------------------------------------------
(* Properties of the circuit breaker *)

\* C9: a Closed circuit opens in the step that completes the N-th
\* consecutive transport-level or timeout failure, and only in such a step;
\* while the circuit is Open every new request returns CircuitOpen at once
\* and no Transport call is made for it.
C9_CircuitOpens ==
    /\ [][circuit = "Closed" /\ history' # history
            /\ TrailingFailures(history') >= threshold
            => circuit' = "Open"]_vars
    /\ [][circuit = "Closed" /\ circuit' # "Closed"
            => /\ circuit' = "Open"
               /\ history' # history
               /\ TrailingFailures(history') >= threshold]_vars
    /\ [](circuit = "Closed" => TrailingFailures(history) < threshold)
    /\ [][attempts' # attempts /\ circuit = "Open"
            => /\ lastVerdict' = "CircuitOpen"
               /\ dispatched' = dispatched
               /\ inflight' = inflight
               /\ circuit' = "Open"]_vars

\* five TransportErrors in a row opened the circuit of a server with the
\* default threshold, and the sixth request failed fast
C9_Witness ==
    /\ threshold = DefaultThreshold
    /\ history = << "TransportError", "TransportError", "TransportError",
                    "TransportError", "TransportError" >>
    /\ circuit = "Open"
    /\ attempts = 6
    /\ dispatched = 5
    /\ lastVerdict = "CircuitOpen"

\* C10: a request that completes with an RpcError never raises
\* consecutiveFailures and never opens the circuit, and while every
\* completed request has completed with an RpcError the circuit is Closed
\* with no failure counted.
C10_RpcErrorNotFailure ==
    /\ [][history' # history /\ history'[Len(history')] = "RpcError"
            => /\ consecutiveFailures' <= consecutiveFailures
               /\ circuit = "Closed" => circuit' = "Closed"
               /\ circuit' = "Open" => circuit = "Open"]_vars
    /\ []((\A k \in 1..Len(history) : history[k] = "RpcError")
            => circuit = "Closed" /\ consecutiveFailures = 0)

\* as many requests as the threshold, and more, have all completed with an
\* RpcError
C10_Witness ==
    /\ Len(history) > threshold
    /\ \A k \in 1..Len(history) : history[k] = "RpcError"
    /\ circuit = "Closed"

\* C11: an Open circuit leaves Open only for HalfOpen, and only once the
\* cooldown has elapsed since it opened; in HalfOpen at most one request,
\* the probe, is passed to the Transport, and every other request made while
\* the probe is in flight fails fast; the circuit leaves HalfOpen only when
\* the probe completes: for Closed if it succeeded, for Open if it failed.
C11_HalfOpenProbe ==
    /\ [][circuit = "Open" /\ circuit' # "Open"
            => /\ circuit' = "HalfOpen"
               /\ clock >= openedAt + Cooldown]_vars
    /\ [][circuit' = "HalfOpen" /\ circuit # "HalfOpen"
            => circuit = "Open" /\ probe' = 0]_vars
    /\ [][circuit = "HalfOpen" /\ dispatched' # dispatched
            => /\ probe = 0
               /\ probe' = dispatched'
               /\ dispatched' = dispatched + 1]_vars
    /\ [][circuit = "HalfOpen" /\ probe # 0 /\ attempts' # attempts
            => /\ lastVerdict' = "CircuitOpen"
               /\ dispatched' = dispatched
               /\ inflight' = inflight]_vars
    /\ [][circuit = "HalfOpen" /\ probe # 0 /\ probe \notin inflight'
            => /\ history' # history
               /\ IF history'[Len(history')] \in {"TransportError", "Timeout"}
                  THEN circuit' = "Open" /\ openedAt' = clock
                  ELSE circuit' = "Closed"]_vars
    /\ [][circuit = "HalfOpen" /\ circuit' # "HalfOpen"
            => probe # 0 /\ probe \notin inflight']_vars
    /\ [](circuit = "HalfOpen" /\ probe # 0 => probe \in inflight)

\* the circuit is HalfOpen, its probe is in flight, and the request made
\* after the probe has failed fast
C11_Witness ==
    /\ circuit = "HalfOpen"
    /\ probe # 0
    /\ probe \in inflight
    /\ lastVerdict = "CircuitOpen"
    /\ clock >= openedAt + Cooldown

----------------------------------------------------------------------------
(* Properties of the stream readers *)

\* what the reader holds once it has been fed `bytes` in a single read
FedAtOnce(c, bytes) == Feed(c, FreshReader, bytes)

\* C12: however the bytes of an SSE stream are split into reads, the reader
\* has decoded the same payloads in the same order, each with the same
\* event id, has settled the same promise and holds the same unfinished
\* line as a reader fed the same bytes in a single read.
C12_ChunkingInvisible ==
    channel = "sse" =>
        LET one == FedAtOnce("sse", SubSeq(input, 1, fed)) IN
        /\ parsed = one.parsed
        /\ lastEventId = one.lastEventId
        /\ slots = one.slots
        /\ buffer = one.buffer
        /\ (reading = "failed") = (one.reading = "failed")

\* a stream of two whole frames has been read to its end in reads of which
\* one ended inside a line, and both payloads were decoded
C12_Witness ==
    /\ channel = "sse"
    /\ reading = "eof"
    /\ input \in WholeStreams("sse")
    /\ midLine
    /\ Len(parsed) = 2
    /\ parsed = FedAtOnce("sse", input).parsed

\* the messages handed to the 'message' listeners, in order
Delivered ==
    [k \in 1..(Len(handlerLog) \div 2) |-> handlerLog[2 * k].msg]

\* C13: on the SSE response stream of a POST the promise of the request is
\* resolved only by the Response carrying the request's own id; a Response
\* carrying another id settles the request of that id, and a Notification
\* decoded from the stream is handed to the handlers.
C13_ResolvedByOwnResponse ==
    channel = "sse" =>
        /\ slots[StreamRequestId].o.kind = "Result"
                => slots[StreamRequestId].by = StreamRequestId
        /\ \A k \in 1..Len(parsed) :
               LET m == parsed[k].data IN
               IF m.id = 0
               THEN \E j \in 1..Len(Delivered) : Delivered[j] = m
               ELSE m.id # StreamRequestId => slots[m.id].by = m.id

\* the frames of `bytes` that a blank line has terminated
TerminatedFrames(bytes) ==
    LET ls == CompleteLines(bytes) IN
    Cardinality({k \in 1..Len(ls) : Trim(ls[k]) = << >>})

\* C14: the reader of an SSE stream has emitted no more events than blank
\* lines have terminated frames in the bytes read so far, and a request is
\* resolved only by an event of a terminated frame; so a frame the end of
\* the stream leaves without its blank line is never emitted and resolves
\* nothing.
C14_OnlyTerminatedFrames ==
    channel = "sse" =>
        /\ Len(parsed) <= TerminatedFrames(SubSeq(input, 1, fed))
        /\ slots[StreamRequestId].o.kind = "Result"
               => TerminatedFrames(SubSeq(input, 1, fed)) >= 1

\* the messages of the lines of `bytes` that are complete, in arrival order
Arrived(bytes) ==
    LET ends == {i \in 1..Len(bytes) : bytes[i] = LF}
        last == IF ends = {} THEN 0
                ELSE CHOOSE i \in ends : \A j \in ends : j <= i
        texts == SelectSeq(SubSeq(bytes, 1, last),
                           LAMBDA t : t \in DOMAIN Wire)
    IN [k \in 1..Len(texts) |-> Wire[texts[k]]]

IsNotification(m) == m.id = 0

C17_MalformedDropped ==
    /\ reading # "failed"
    /\ \A i \in Outstanding : slots[i].o.kind # "SyntaxError"
    /\ [k \in 1..Len(parsed) |-> parsed[k].data]
           = Arrived(SubSeq(input, 1, fed))

----------------------------------------------------------------------------
(* Properties of the codec *)

\* the objects decoding is to reject
Malformed(o) ==
    \/ o.jsonrpc # "2.0"
    \/ o.result # "absent" /\ o.error # "absent"
    \/ o.id # "absent" /\ o.method = "absent" /\ o.result = "absent"
          /\ o.error = "absent"

\* C16: once an inbound object has been validated, no schema has parsed it
\* if its jsonrpc field is missing or not "2.0", if it has both result and
\* error, or if it has an id and none of method, result, error.
C16_DecodeRejectsMalformed ==
    validated /\ Malformed(object) => accepted = {}

----------------------------------------------------------------------------
(* Properties of the client factory *)

\* a peer that speaks only the legacy SSE transport
OlderPeer(p) == ~IsStreamableHttp(p.post) /\ IsLegacySse(p.get)

\* C20: once createTransport has been called with a url, the transport type
\* has been detected exactly once, by a POST probe first; the client's
\* transport is Streamable-HTTP for a peer that answers with the protocol
\* version header, and legacy SSE for an older peer.
C20_DetectsOnceAndFallsBack ==
    config.url /\ phase # "idle" =>
        /\ OlderPeer(peer) => transportType = "legacy-sse"
        /\ IsStreamableHttp(peer.post) => transportType = "streamable-http"
        /\ Len(detections) + (IF detecting = "idle" THEN 0 ELSE 1) = 1
        /\ probes # << >> /\ Head(probes) = "POST"

\* C21: createTransport does not keep its caller waiting for ever: once it
\* awaits the race it returns or rejects; it returns only after connect has
\* succeeded; and the timer firing while the race is on rejects it with the
\* connection-timeout error.
C21_CreateTransportSettles ==
    /\ [](phase = "returned" => connect = "resolved" /\ client = "connected")
    /\ [][timer = "armed" /\ timer' = "fired" /\ phase = "racing"
            => phase' = "rejected" /\ thrown' = "timeout"]_vars
    /\ (phase = "racing" ~> phase \in {"returned", "rejected"})

\* the timer fired while the handshake was still going on, and the caller
\* got the connection-timeout error
C21_Witness ==
    phase = "rejected" /\ thrown = "timeout" /\ connect = "pending"

\* C22: close() in Operating takes the Session to ShuttingDown and closes
\* the Transport, whether or not the shutdown notification could be sent;
\* ShuttingDown is left only for Closed, and a Session in ShuttingDown
\* always eventually is Closed, also when the Transport never reports.
C22_CloseReachesClosed ==
    /\ [][state = "Operating" /\ closeCalls' # closeCalls
            => /\ state' = "ShuttingDown"
               /\ transport' = "closing"
               /\ transportCloses' = transportCloses + 1]_vars
    /\ [][state = "ShuttingDown" => state' \in {"ShuttingDown", "Closed"}]_vars
    /\ (state = "ShuttingDown" ~> state = "Closed")

\* close() was called in Operating, the shutdown notification could not be
\* sent, and the Transport is being closed all the same
C22_Witness ==
    /\ state = "ShuttingDown"
    /\ transport = "closing"
    /\ settled[1] = 1 /\ pending = {}     \* the handshake was over
    /\ \A k \in 1..Len(sentLog) : sentLog[k].method # "shutdown"

\* C23: every POST and GET the transport sends carries the session id the
\* peer has assigned in the initialize response received before it, and no
\* session id header when none has been assigned; the stored session id
\* changes only when the response to initialize is received.
C23_SessionIdHeader ==
    /\ [](\A k \in 1..Len(httpLog) :
            httpLog[k].verb \in {"POST", "GET"} =>
                httpLog[k].sid = httpLog[k].known)
    /\ [][sessionId' # sessionId =>
            \E f \in fetches : f.method = "initialize" /\ f \notin fetches']_vars

\* the peer assigned s1 in its initialize response; the handshake POST went
\* without the header, the POST and the GET after it carry s1
C23_Witness ==
    /\ Len(httpLog) = 3
    /\ httpLog[1] = [verb |-> "POST", method |-> "initialize",
                     sid |-> "none", known |-> "none"]
    /\ httpLog[2].verb = "POST" /\ httpLog[2].sid = "s1"
    /\ httpLog[3].verb = "GET" /\ httpLog[3].sid = "s1"
    /\ fetches = {}

\* C24: the breaker ends no request that is in flight: when the circuit
\* opens, and while it is Open, a request leaves the Transport only by its
\* own completion (Response, TransportError or Timeout), one at a time; and
\* CircuitOpen is the verdict of new requests only, which are not dispatched.
C24_Grandfathered ==
    /\ [][circuit' = "Open" \/ circuit = "Open"
            => /\ inflight \subseteq inflight' \/
                    (/\ inflight' \subseteq inflight
                     /\ Cardinality(inflight \ inflight') = 1
                     /\ Len(history') = Len(history) + 1
                     /\ history'[Len(history')] \in Completions
                     /\ lastVerdict' = lastVerdict)]_vars
    /\ [][lastVerdict' = "CircuitOpen" /\ attempts' # attempts
            => /\ circuit \in {"Open", "HalfOpen"}
               /\ dispatched' = dispatched
               /\ inflight' = inflight]_vars

\* requests were in flight when the circuit opened; a new request has been
\* refused with CircuitOpen, and one of the earlier ones has then completed
\* with its Response while the circuit was Open
C24_Witness ==
    /\ circuit = "Open"
    /\ attempts > dispatched
    /\ Len(history) > threshold
    /\ \A k \in 1..threshold : history[k] = "TransportError"
    /\ history[Len(history)] = "Success"
    /\ inflight # {}

\* C25: a command line with --transport http, with a port or without one,
\* whose server has been constructed, does not end in a failure of start().
C25_HttpServerRuns ==
    cli # "idle" /\ argv.transport = "http" /\ argv.port # 0
                 /\ server.status \notin {"disabled", "invalid"}
        => cli # "exit 1"

\* C26: the server main() has started advertises no capability that was
\* disabled on the command line and has no request handler of it.
C26_DisabledOnCommandLine ==
    cli # "idle" =>
        \A c \in argv.disable :
            /\ c \notin server.capabilities
            /\ HandlersOf(c) \cap server.handlers = {}

C28_ConfigChecked ==
    /\ ~config.url /\ ~config.command /\ phase # "idle"
            => /\ phase = "rejected" /\ thrown = "config"
               /\ client = "none" /\ transportType = "none"
               /\ connect = "none" /\ timer = "unset"
    /\ config.url /\ config.command /\ phase # "idle"
            => transportType = "streamable-http"
    /\ thrown = "config" => ~config.url /\ ~config.command

\* createTransport was called with a url and a command, and returned a
\* client connected over HTTP although the command does not run
C28_Witness ==
    /\ config.url /\ config.command
    /\ peer.process = "missing"
    /\ phase = "returned"
    /\ transportType = "streamable-http"

C30_CheckersNeedBothFlags ==
    checked.fn # "none" =>
        /\ Truthy(checked.value) => checked.master /\ checked.flag
        /\ ~checked.master => checked.value = "false"

----------------------------------------------------------------------------
(* The monitor's claims *)

\* C31: when monitoring is disabled in the configuration, a call of
\* recordEvent leaves the metrics, the event log and the response-time
\* buffer as they were, whatever the event.
C31_DisabledRecordsNothing ==
    [][(tally'.recorded # tally.recorded /\ ~monitor.enabled)
          => /\ monitor'.metrics = monitor.metrics
             /\ monitor'.events = monitor.events
             /\ monitor'.responseTimeBuffer = monitor.responseTimeBuffer]_vars

\* two events were handed to a monitor whose monitoring is disabled
C31_Witness ==
    /\ ~monitor.enabled
    /\ tally.recorded > 1
    /\ tally.awaited > 0

\* C32: the event log never holds more than its cap of events nor the
\* response-time buffer more than its cap of durations, and getEvents(limit)
\* returns the last min(limit, size) events of the log, in arrival order.
C32_LogsBoundedAndServed ==
    /\ [](/\ Len(monitor.events) <= EventLogSize
          /\ Len(monitor.responseTimeBuffer) <= BUFFER_SIZE)
    /\ [][(observed'.call = "getEvents" /\ observed' # observed)
            => LET size == Len(monitor.events)
                   n == MathMin(observed'.limit, size)
               IN  observed'.events = SubSeq(monitor.events, size - n + 1, size)]_vars

\* C33: getHealthStatus answers 'healthy' exactly when it reports no issue;
\* 'critical' exactly when the error rate is above 10%, or the P95 response
\* time above 1000 ms, or the connection failure rate above 20%; 'warning'
\* exactly when none of these holds but the error rate is above 5% or the
\* P95 above 500 ms; and the call leaves the monitor as it was.  A rate
\* over a total of zero is zero.
C33_HealthVerdict ==
    [][(observed'.call = "getHealthStatus" /\ observed' # observed)
          => LET r == monitor.metrics.requests
                 c == monitor.metrics.connections
                 p95 == monitor.metrics.performance.p95ResponseTime
                 critical ==
                     \/ r.total > 0 /\ r.error * 10 > r.total
                     \/ p95 > 1000
                     \/ c.total > 0 /\ c.failed * 5 > c.total
                 elevated ==
                     \/ r.total > 0 /\ r.error * 20 > r.total
                     \/ p95 > 500
             IN  /\ observed'.status \in {"healthy", "warning", "critical"}
                 /\ observed'.status = "healthy" <=> observed'.issues = {}
                 /\ observed'.status = "critical" <=> critical
                 /\ observed'.status = "warning" <=> ~critical /\ elevated
                 /\ monitor' = monitor
                 /\ snapshot' = snapshot]_vars

\* a verdict whose first check found a critical error rate and whose second
\* found a P95 that alone is a warning: it stayed critical
C33_Witness ==
    /\ observed.call = "getHealthStatus"
    /\ observed.status = "critical"
    /\ observed.issues = {"High error rate", "Elevated P95 response time"}

\* C34: what getMetrics returned is a snapshot: recording an event after it
\* was taken changes no value it holds, and a write of the caller to the
\* returned object changes nothing of the monitor.
C34_SnapshotIsolated ==
    /\ [][(tally'.recorded # tally.recorded /\ snapshot.taken)
            => snapshot'.held = snapshot.held]_vars
    /\ [][tally'.writes # tally.writes => monitor' = monitor]_vars

\* C35: after reset() the monitor is what a freshly constructed one is: all
\* counters zero, minResponseTime at its initial sentinel, the event log and
\* the response-time buffer empty; the events recorded after it leave the
\* monitor, and its health verdict, as they leave a fresh monitor; and a
\* second reset() changes nothing more.
C35_ResetIsFresh ==
    tally.wasReset =>
        LET fresh == FreshMonitor(monitor.enabled)
            replayed == Replay(fresh, tally.since)
        IN  /\ monitor = replayed
            /\ getHealthStatus(monitor) = getHealthStatus(replayed)
            /\ tally.since = << >> =>
                  /\ monitor = fresh
                  /\ monitor.metrics.requests.total = 0
                  /\ monitor.metrics.performance.minResponseTime
                       = MAX_SAFE_INTEGER
                  /\ monitor.events = << >>
                  /\ monitor.responseTimeBuffer = << >>

\* a monitor that was reset and has since completed a slow request and
\* failed another: its verdict is critical again
C35_Witness ==
    /\ tally.wasReset
    /\ Len(tally.since) = 3
    /\ monitor.metrics.requests.error = 1
    /\ monitor.metrics.performance.maxResponseTime = 600
    /\ monitor.metrics.performance.minResponseTime = 100

\* C38: whatever connection.opened and connection.closed events were
\* recorded, closes without an open and resets in between included,
\* 0 <= connections.active <= connections.total, and connections.total
\* decreases only by reset().
C38_ConnectionCounters ==
    /\ [](/\ 0 <= monitor.metrics.connections.active
          /\ monitor.metrics.connections.active
               <= monitor.metrics.connections.total)
    /\ [][monitor'.metrics.connections.total
             < monitor.metrics.connections.total
            => /\ tally'.wasReset /\ tally'.since = << >>
               /\ tally'.recorded = tally.recorded
               /\ monitor'.metrics.connections.total = 0]_vars

\* after a reset a connection was closed that the monitor never saw open,
\* and then one was opened
C38_Witness ==
    /\ tally.wasReset
    /\ Len(tally.since) = 2
    /\ tally.since[1].type = "connection.closed"
    /\ tally.since[2].type = "connection.opened"
    /\ monitor.metrics.connections.active = 1
    /\ monitor.metrics.connections.total = 1

\* C39: when every request.completed event follows its own
\* request.received event, requests.success + requests.error never exceeds
\* requests.total, so the error rate of the health verdict is at most 100%.
C39_CompletedWithinReceived ==
    (~tally.orphaned /\ ~tally.wasReset) =>
        /\ monitor.metrics.requests.success + monitor.metrics.requests.error
             <= monitor.metrics.requests.total
        /\ monitor.metrics.requests.error <= monitor.metrics.requests.total

\* on a warmed-up monitor two requests were received and one of them has
\* failed
C39_Witness ==
    /\ ~tally.orphaned /\ ~tally.wasReset
    /\ tally.recorded = 3
    /\ tally.awaited = 1
    /\ monitor.metrics.requests.error = 1
    /\ monitor.metrics.requests.total = 11

----------------------------------------------------------------------------
(* The feature flags and the factory, once more *)

\* C36: loadMCPFlags never changes DEFAULT_MCP_FLAGS nor its nested
\* objects, and a call made with no MCP_* variable set returns flags that
\* are all disabled, whatever was loaded before.
C36_LoadIsPure ==
    /\ [](defaultFlags = DEFAULT_MCP_FLAGS)
    /\ [][(loaded'.at # loaded.at
            /\ \A n \in EnvNames \ {"NODE_ENV"} : env[n] = "unset")
            => /\ ~loaded'.enabled
               /\ \A c \in Categories : \A k \in DOMAIN defaultFlags'[c] :
                     ~defaultFlags'[c][k]]_vars

\* C37: once createTransport has rejected because its connection timer
\* fired, no connected client remains and none appears later: the connect
\* attempt it gave up cannot end in an open connection nobody owns.
C37_NoOrphanAfterTimeout ==
    (phase = "rejected" /\ thrown = "timeout") => client # "connected"

=============================================================================
